---- MODULE Spec2Model ----
(***************************************************************************)
(* Workflow execution state machine of the video automation tool:          *)
(* WorkflowEngine.run_workflow (workflow.py) over the sqlite store         *)
(* (database.py) and the vendor API wrappers (api_clients.py).             *)
(*                                                                         *)
(* One invocation of run_workflow is a sequence of steps; every outbound   *)
(* call (script generator, video generator, media publisher) and every     *)
(* store operation either returns or raises, chosen nondeterministically.  *)
(***************************************************************************)
EXTENDS Integers, Sequences, FiniteSets, TLC

(* ------------------------------ bounds -------------------------------- *)
\* number of invocations of run_workflow the host makes, one after another
MaxRuns == 1
\* number of runs the dashboard host opens, one after another: a full turn of
\* the idea bank and one more
MaxCalls == 11
\* longest time (seconds) one get_task_status request takes
MaxLatency == 1
\* number of workflows created, and of calls of execute_workflow, one after another
MaxWorkflows == 1
MaxExecs == 2
\* longest resultUrls list the extraction of the video url is applied to
MaxUrls == 2
\* largest max_wait and largest check_interval (seconds) wait_for_completion
\* is called with on its own
MaxWait == 5
MaxInterval == 3
\* most threads started on scheduler.start
MaxThreads == 3
\* largest idea bank get_next_idea is iterated over
MaxCatalog == 4
\* the indexes get_next_idea is first given range over -MaxIndex..MaxIndex
MaxIndex == 6

(* ------------------------- program constants -------------------------- *)
\* workflow.py:86  wait_for_completion(task_id, max_wait=600)
max_wait == 600
\* api_clients.py:49  check_interval: int = 10
check_interval == 10
\* ideas.py:7  len(IDEAS)
NumIdeas == 10

\* workflow.py:106-149: the platforms, in the order the code posts to them
Platforms == <<"youtube", "instagram", "tiktok">>

PlatformSet == {Platforms[i] : i \in 1..Len(Platforms)}

\* database.py:38-40: the posted flag column of a platform
PostedField(p) ==
    CASE p = "youtube"   -> "posted_youtube"
      [] p = "instagram" -> "posted_instagram"
      [] p = "tiktok"    -> "posted_tiktok"

Runs == 1..MaxRuns

\* Python's None, for ids and for text
None == 0
NoText == "None"

(* ------------------------ collaborator outcomes ----------------------- *)
\* fields a script response can carry; generate_script returns whatever JSON
\* object the generator sent (api_clients.py:111-113), fields unchecked
ScriptFields == {"title", "description", "prompt", "hashtags"}

\* the JSON objects generate_script can return: the full script, and the
\* script with one of its fields missing
ScriptResponses == {ScriptFields} \cup {ScriptFields \ {f} : f \in ScriptFields}

\* the text of a field of the script the generator sent (api_clients.py:212
\* asks for hashtags as one space-separated string)
ScriptValue(f) ==
    CASE f = "title"       -> "Goat hops"
      [] f = "description" -> "A baby goat hops."
      [] f = "prompt"      -> "Handheld video of a baby goat"
      [] f = "hashtags"    -> "#a #b"

\* the statuses get_task_status can report; anything but the three terminal
\* ones leaves the loop of wait_for_completion running
PollStatuses == {"PENDING", "SUCCESS", "FAILED", "ERROR"}

\* the url a well-formed result of the runs carries in resultUrls[0], and the
\* one it carries in resultUrls[1]
ResultUrl == "https://cdn.kie.ai/v/1.mp4"
SecondUrl == "https://cdn.kie.ai/v/1_hd.mp4"

\* the url upload_media answers with
MediaUrl == "media.url"

\* app.py:25-26 and scheduler.py:19: the WorkflowEngine objects of the dashboard
\* host, the one of the manual trigger and the one of the scheduler
Engines == {"workflow_engine", "scheduler.engine"}

VARIABLES
    IDEAS,              \* ideas.py:7  the idea bank, a module global
    current_idea_index, \* current_idea_index[e]: WorkflowEngine.current_idea_index of engine e
    videos,             \* table videos: row id -> record
    workflow_runs,      \* table workflow_runs: row id -> record
    pc,                 \* pc[r]: where invocation r of run_workflow stands
    local,              \* local[r]: the local variables of invocation r
    ret,                \* ret[r]: what invocation r handed to its caller
    called,             \* called[r]: the outbound calls invocation r has made
    posts,              \* posts[r]: the create_post calls of r, in order, with outcome
    video_log,          \* video_log[v]: the column values written to videos row v, in order
    run_log,            \* run_log[w]: the status values written to workflow_runs row w
    idea_index,         \* the index a caller of get_next_idea feeds back to it
    served,             \* the calls of get_next_idea that caller made, in order
    scheduler_running,  \* app.py:38  the dashboard's flag
    is_running,         \* scheduler.py:21  AutomationScheduler.is_running
    call,               \* the call of run_workflow in flight in the dashboard host
    opened,             \* opened[e]: the calls on engine e that opened their WorkflowRun
    used,               \* the ideas the host's calls obtained, in order, with their engine
    workflows,          \* table workflows: row id -> record
    workflow_executions,\* table workflow_executions, in insertion order
    xpc,                \* where the call of execute_workflow in progress stands
    xlocal,             \* its local variables (those of _execute_video_creation included)
    xret,               \* what the last call of execute_workflow handed to its caller
    xcalled,            \* the outbound calls that call has made
    xposts,             \* its create_post calls, in order, with outcome
    execs,              \* the number of calls of execute_workflow so far
    exec_ideas,         \* the ideas the executions took from the default bank, in
                        \* order, each with the id of its workflow
    parse_in,           \* a resultJson handed to the extraction of the video url
    parse_out,          \* what the extraction made of it
    wait,               \* a call of wait_for_completion on its own: its arguments,
                        \* its clock and its polls
    threads             \* threads[t]: where the t-th thread started on
                        \* scheduler.start stands

\* the variables of the invocations of run_workflow
runVars == <<videos, workflow_runs, pc, local, ret, called, posts, video_log, run_log>>

\* the variables of a caller that iterates get_next_idea
ideaVars == <<idea_index, served>>

\* the variables of the dashboard host
hostVars == <<scheduler_running, is_running, call, opened, used>>

\* the variables of WorkflowExecutor and WorkflowManager
execVars == <<workflows, workflow_executions, xpc, xlocal, xret, xcalled, xposts,
              execs, exec_ideas>>

\* the variables of the extraction of the video url on its own
parseVars == <<parse_in, parse_out>>

\* the variable of wait_for_completion on its own
waitVars == <<wait>>

\* the variable of the threads of the scheduler
threadVars == <<threads>>

\* what no statement of run_workflow reads or writes
otherVars == <<IDEAS, ideaVars, hostVars, execVars, parseVars, waitVars, threadVars>>

vars == <<IDEAS, current_idea_index, runVars, ideaVars, hostVars, execVars, parseVars, waitVars, threadVars>>

(* ------------------------------ the store ----------------------------- *)
\* database.py:83-100  the row INSERT INTO videos writes
NewVideoRow ==
    [status |-> "created", sora_task_id |-> None, video_url |-> NoText,
     posted_tiktok |-> FALSE, posted_instagram |-> FALSE, posted_youtube |-> FALSE,
     error |-> NoText]

\* database.py:83-100  add_video: the table after the insert (id = lastrowid)
add_video(tbl) == Append(tbl, NewVideoRow)

\* database.py:107-115  the SET list built from kwargs: the columns named in
\* kw take kw's value, the others keep theirs
SetFields(row, kw) ==
    [status           |-> IF "status" \in DOMAIN kw THEN kw.status ELSE row.status,
     sora_task_id     |-> IF "sora_task_id" \in DOMAIN kw THEN kw.sora_task_id
                          ELSE row.sora_task_id,
     video_url        |-> IF "video_url" \in DOMAIN kw THEN kw.video_url ELSE row.video_url,
     posted_tiktok    |-> IF "posted_tiktok" \in DOMAIN kw THEN kw.posted_tiktok
                          ELSE row.posted_tiktok,
     posted_instagram |-> IF "posted_instagram" \in DOMAIN kw THEN kw.posted_instagram
                          ELSE row.posted_instagram,
     posted_youtube   |-> IF "posted_youtube" \in DOMAIN kw THEN kw.posted_youtube
                          ELSE row.posted_youtube,
     error            |-> IF "error" \in DOMAIN kw THEN kw.error ELSE row.error]

\* update_video addressing the newest row of the table instead of the row
\* whose id it was given
update_video_Newest(tbl, id, kw) ==
    IF tbl # <<>> THEN [tbl EXCEPT ![Len(tbl)] = SetFields(@, kw)] ELSE tbl

\* database.py:102-123  update_video: UPDATE videos SET kw WHERE id = ?
update_video(tbl, id, kw) ==
    IF id \in DOMAIN tbl THEN [tbl EXCEPT ![id] = SetFields(@, kw)] ELSE tbl

\* database.py:157-171  add_workflow_run: INSERT INTO workflow_runs (status, video_id)
add_workflow_run(tbl) ==
    Append(tbl, [status |-> "started", video_id |-> None, error |-> NoText])

\* database.py:173-187  complete_workflow_run: UPDATE workflow_runs ... WHERE id = ?
complete_workflow_run(tbl, id, status, vid, error) ==
    IF id \in DOMAIN tbl
    THEN [tbl EXCEPT ![id] = [status |-> status, video_id |-> vid, error |-> error]]
    ELSE tbl

\* the write log of videos after kw was written to row id
LogVideoWrite(log, id, kw) ==
    IF id \in DOMAIN log THEN [log EXCEPT ![id] = Append(@, kw)] ELSE log

\* the write log of workflow_runs after status was written to row id
LogRunWrite(log, id, status) ==
    IF id \in DOMAIN log THEN [log EXCEPT ![id] = Append(@, status)] ELSE log

(* --------------------------- the idea bank ---------------------------- *)
\* ideas.py:7-108  the bank as shipped: an idea is named by its position
DefaultIdeas == [k \in 1..NumIdeas |-> k - 1]

\* get_next_idea without the wrap of the index it hands back
get_next_idea_NoWrap(current_index) ==
    LET index == current_index % Len(IDEAS)
    IN  <<IDEAS[index + 1], index + 1>>

\* ideas.py:111-114  get_next_idea: <<IDEAS[index], next index>> (Python lists
\* count from 0, sequences from 1; % is never negative for a positive divisor,
\* in Python as here)
get_next_idea(current_index) ==
    LET index == current_index % Len(IDEAS)
    IN  <<IDEAS[index + 1], (index + 1) % Len(IDEAS)>>

(* ------------------------------- Init --------------------------------- *)
\* data.resultJson of a SUCCESS result: a JSON text, or the object itself
StringResult(text) == [is_str |-> TRUE, text |-> text]
ObjectResult(obj) == [is_str |-> FALSE, obj |-> obj]

\* the local result before wait_for_completion has returned, and once it has
\* been read
NoResult == [is_str |-> FALSE, obj |-> <<>>, none |-> TRUE]

\* the locals of run_workflow before its first statement (platform is the
\* position in Platforms of the platform block being executed; next_index is
\* the second component of the tuple of get_next_idea before it is stored)
NoLocals ==
    [run_id |-> None, video_id |-> None, idea |-> -1, script |-> {},
     task_id |-> None, elapsed |-> 0, result |-> NoResult,
     video_url |-> NoText, uploaded |-> NoText, media_url |-> NoText,
     post_content |-> NoText, next_index |-> -1,
     platform |-> 1, error_msg |-> NoText, raised_at |-> NoText]

NoReturn == [kind |-> "none"]

\* database.py:23-81: an empty store, and no invocation of run_workflow yet
IdleRuns ==
    /\ videos = <<>>
    /\ workflow_runs = <<>>
    /\ pc = [r \in Runs |-> "idle"]
    /\ local = [r \in Runs |-> NoLocals]
    /\ ret = [r \in Runs |-> NoReturn]
    /\ called = [r \in Runs |-> {}]
    /\ posts = [r \in Runs |-> <<>>]
    /\ video_log = <<>>
    /\ run_log = <<>>

\* no caller iterating get_next_idea on its own
IdleIdeas == idea_index = 0 /\ served = <<>>

\* app.py:36-38 and scheduler.py:18-21: the dashboard host after start-up: the
\* scheduler is not started and no run is in flight
NoCall == [at |-> "none"]

IdleHost ==
    /\ scheduler_running = FALSE
    /\ is_running = FALSE
    /\ call = NoCall
    /\ opened = [e \in Engines |-> 0]
    /\ used = <<>>

\* the workflow a call of execute_workflow has not fetched yet
NoWorkflow == [type |-> NoText, status |-> NoText, config |-> [idea_bank |-> NoText]]

\* the locals of execute_workflow and _execute_video_creation before their first
\* statement (from_bank tells an idea of the bank from the custom idea of the
\* config; result_json is data.resultJson of the result of the wait; uploaded
\* is the argument of upload_media; i is the position in the platform list)
NoXLocals ==
    [workflow_id |-> None, workflow |-> NoWorkflow, from_bank |-> FALSE, idea |-> -1,
     chat |-> NoText, script |-> <<>>, prompt |-> NoText, task_id |-> None,
     result_json |-> NoResult, video_url |-> NoText, uploaded |-> NoText,
     media_url |-> NoText, post_content |-> NoText, i |-> 1, posted_to |-> <<>>,
     result |-> NoReturn, error_msg |-> NoText, raised_at |-> NoText]

\* workflow_manager.py:17-59 and workflow_executor.py:24-38: empty tables and an
\* executor that has not been called
IdleExecutor ==
    /\ workflows = <<>>
    /\ workflow_executions = <<>>
    /\ xpc = "idle"
    /\ xlocal = NoXLocals
    /\ xret = NoReturn
    /\ xcalled = {}
    /\ xposts = <<>>
    /\ execs = 0
    /\ exec_ideas = <<>>

\* no extraction of a video url on its own
NoParse == [form |-> "none"]

IdleParse == parse_in = NoParse /\ parse_out = NoReturn

\* no call of wait_for_completion on its own
NoWait == [at |-> "none"]

IdleWait == wait = NoWait

\* app.py:37  scheduler_thread = None: no thread started on scheduler.start
IdleThreads == threads = <<>>

\* the engine whose run_workflow calls the invocations are (scheduler.py:19)
RunEngine == "scheduler.engine"

\* workflow.py:25-31: fresh engines over the bank as shipped and an empty store
Init ==
    /\ IDEAS = DefaultIdeas
    /\ current_idea_index = [e \in Engines |-> 0]
    /\ IdleRuns
    /\ IdleIdeas
    /\ IdleHost
    /\ IdleExecutor
    /\ IdleParse
    /\ IdleWait
    /\ IdleThreads

(* ----------------------------- messages ------------------------------ *)
\* str(e) of the exceptions a run can meet
StoreError       == "sqlite3.OperationalError"
ScriptError      == "generate_script failed"
SubmitError      == "create_video failed"
StatusError      == "get_task_status failed"
\* api_clients.py:62
GenerationFailed == "Video generation failed"
\* the timeout reported with the words of a generation failure, as a wait
\* that raised one kind of error for both would
TimedOut_AsFailure == GenerationFailed
\* api_clients.py:67
TimedOut         == "Video generation timed out after 600 seconds"
UploadError      == "upload_media failed"
\* str(KeyError(k)) is the key in quotes
KeyError(k) ==
    CASE k = "title"       -> "'title'"
      [] k = "prompt"      -> "'prompt'"
      [] k = "description" -> "'description'"
      [] k = "taskId"      -> "'taskId'"
      [] k = "resultUrls"  -> "'resultUrls'"
      [] k = "url"         -> "'url'"

\* workflow_executor.py:120  script.get on JSON that is not an object
AttributeError == "'list' object has no attribute 'get'"
\* workflow.py:91, 93  [0] on an empty resultUrls
IndexError == "list index out of range"
\* workflow.py:91  json.loads on a text that is no JSON
JSONDecodeError == "Expecting value: line 1 column 1 (char 0)"

\* the class of the exception that carries msg: TimeoutError at
\* api_clients.py:67, Exception at api_clients.py:62, KeyError for a missing
\* key, the store's error, and the error of a vendor call (raise_for_status,
\* a connection error, or content that is not JSON)
ExceptionClass(msg) ==
    CASE msg = TimedOut         -> "TimeoutError"
      [] msg = GenerationFailed -> "Exception"
      [] msg = StoreError       -> "OperationalError"
      [] msg = AttributeError   -> "AttributeError"
      [] msg = IndexError       -> "IndexError"
      [] msg = JSONDecodeError  -> "JSONDecodeError"
      [] msg \in {ScriptError, SubmitError, StatusError, UploadError} -> "RequestException"
      [] OTHER                  -> "KeyError"

\* workflow.py:166  traceback.format_exc(): it ends with the class and the
\* message of the exception
format_exc(msg) == <<ExceptionClass(msg), msg>>

(* --------------------- resultJson and its parsing --------------------- *)
\* character i of text s, or nothing past its end
At(s, i) == IF i \in 1..Len(s) THEN SubSeq(s, i, i) ELSE ""

\* what a parse that fails hands back
JsonFail == [ok |-> FALSE]

\* the position of the first character of s at or after i that is no blank
RECURSIVE skip_ws(_, _)
skip_ws(s, i) == IF At(s, i) = " " THEN skip_ws(s, i + 1) ELSE i

\* json.loads on the characters of a string literal, from position i after the
\* opening quote, acc the characters decoded so far: a backslash escapes the
\* solidus, the quote and itself
RECURSIVE json_string(_, _, _)
json_string(s, i, acc) ==
    LET c == At(s, i)
    IN  CASE c = ""   -> JsonFail
          [] c = "\"" -> [ok |-> TRUE, value |-> acc, next |-> i + 1]
          [] c = "\\" -> IF At(s, i + 1) \in {"/", "\"", "\\"}
                         THEN json_string(s, i + 2, acc \o At(s, i + 1))
                         ELSE JsonFail
          [] OTHER    -> json_string(s, i + 1, acc \o c)

\* json.loads on the elements of an array of strings, from position i after
\* the opening bracket or a comma, acc the elements decoded so far
RECURSIVE json_array(_, _, _)
json_array(s, i, acc) ==
    LET j == skip_ws(s, i)
    IN  IF At(s, j) = "]" /\ acc = <<>>
        THEN [ok |-> TRUE, value |-> acc, next |-> j + 1]
        ELSE IF At(s, j) # "\"" THEN JsonFail
        ELSE LET e == json_string(s, j + 1, "")
             IN  IF ~e.ok THEN JsonFail
                 ELSE LET k == skip_ws(s, e.next)
                      IN  CASE At(s, k) = "," ->
                                  json_array(s, k + 1, Append(acc, e.value))
                            [] At(s, k) = "]" ->
                                  [ok |-> TRUE, value |-> Append(acc, e.value),
                                   next |-> k + 1]
                            [] OTHER -> JsonFail

\* json.loads on the members of an object whose values are arrays of strings,
\* from position i after the opening brace or a comma, acc the members decoded
\* so far; a key met twice keeps its last value
RECURSIVE json_object(_, _, _)
json_object(s, i, acc) ==
    LET j == skip_ws(s, i)
    IN  IF At(s, j) = "}" /\ DOMAIN acc = {}
        THEN [ok |-> TRUE, value |-> acc, next |-> j + 1]
        ELSE IF At(s, j) # "\"" THEN JsonFail
        ELSE LET key == json_string(s, j + 1, "")
             IN  IF ~key.ok THEN JsonFail
                 ELSE LET k == skip_ws(s, key.next)
                          m == skip_ws(s, k + 1)
                      IN  IF At(s, k) # ":" \/ At(s, m) # "[" THEN JsonFail
                          ELSE LET arr == json_array(s, m + 1, <<>>)
                               IN  IF ~arr.ok THEN JsonFail
                                   ELSE LET n == skip_ws(s, arr.next)
                                            members == (key.value :> arr.value) @@ acc
                                        IN  CASE At(s, n) = "," ->
                                                    json_object(s, n + 1, members)
                                              [] At(s, n) = "}" ->
                                                    [ok |-> TRUE, value |-> members,
                                                     next |-> n + 1]
                                              [] OTHER -> JsonFail

\* json.loads(s) for the texts resultJson can be: an object of arrays of
\* strings, and nothing after it
json_loads(s) ==
    LET i == skip_ws(s, 1)
    IN  IF At(s, i) # "{" THEN JsonFail
        ELSE LET obj == json_object(s, i + 1, <<>>)
             IN  IF obj.ok /\ skip_ws(s, obj.next) = Len(s) + 1
                 THEN [ok |-> TRUE, value |-> obj.value]
                 ELSE JsonFail

\* the characters of u from position i as a JSON encoder writes them inside a
\* string literal; solidus tells whether it writes / as \/
RECURSIVE json_escape(_, _, _)
json_escape(u, i, solidus) ==
    IF i > Len(u) THEN ""
    ELSE LET c == At(u, i)
             out == CASE c = "\"" -> "\\\""
                      [] c = "\\" -> "\\\\"
                      [] c = "/" /\ solidus -> "\\/"
                      [] OTHER -> c
         IN  out \o json_escape(u, i + 1, solidus)

\* the elements of urls from position k on, as string literals, sep between
RECURSIVE json_elements(_, _, _, _)
json_elements(urls, k, solidus, sep) ==
    IF k > Len(urls) THEN ""
    ELSE "\"" \o json_escape(urls[k], 1, solidus) \o "\""
             \o (IF k < Len(urls) THEN sep ELSE "")
             \o json_elements(urls, k + 1, solidus, sep)

\* the styles in which the video generator may write the JSON text: as
\* Python's json.dumps does, without blanks, and without blanks with every
\* solidus escaped (as PHP's json_encode does)
JsonStyles == {"spaced", "compact", "escaped"}

\* the JSON text of {"resultUrls": urls} in a style
JsonText(urls, style) ==
    IF style = "spaced"
    THEN "{\"resultUrls\": [" \o json_elements(urls, 1, FALSE, ", ") \o "]}"
    ELSE "{\"resultUrls\":[" \o json_elements(urls, 1, style = "escaped", ",") \o "]}"

\* the last element taken for the first
first_result_url_Last(obj) ==
    IF "resultUrls" \notin DOMAIN obj THEN [ok |-> FALSE, error |-> KeyError("resultUrls")]
    ELSE IF obj["resultUrls"] = <<>> THEN [ok |-> FALSE, error |-> IndexError]
    ELSE [ok |-> TRUE, url |-> obj["resultUrls"][Len(obj["resultUrls"])]]

\* workflow.py:91, 93  x['resultUrls'][0]: the element, or the exception of a
\* missing key or an empty list
first_result_url(obj) ==
    IF "resultUrls" \notin DOMAIN obj THEN [ok |-> FALSE, error |-> KeyError("resultUrls")]
    ELSE IF obj["resultUrls"] = <<>> THEN [ok |-> FALSE, error |-> IndexError]
    ELSE [ok |-> TRUE, url |-> obj["resultUrls"][1]]

\* workflow.py:88-93 and workflow_executor.py:137-141  video_url from
\* resultJson: json.loads first when it is a str
extract_video_url(result_json) ==
    IF result_json.is_str
    THEN LET parsed == json_loads(result_json.text)
         IN  IF parsed.ok THEN first_result_url(parsed.value)
             ELSE [ok |-> FALSE, error |-> JSONDecodeError]
    ELSE first_result_url(result_json.obj)

\* the resultUrls of the results in the runs: the video and a second rendition
SampleUrls == <<ResultUrl, SecondUrl>>

\* the forms of data.resultJson in a SUCCESS result of the runs: the JSON text
\* as json.dumps writes it, the text with escaped solidus, the nested object,
\* and an object without resultUrls
ResultJsons ==
    {StringResult(JsonText(SampleUrls, "spaced")),
     StringResult(JsonText(SampleUrls, "escaped")),
     ObjectResult([resultUrls |-> SampleUrls]),
     ObjectResult([resultObject |-> <<>>])}

\* the extraction applied to each of them
VideoUrlOf == [res \in ResultJsons |-> extract_video_url(res)]

(* ------------------------- control transfers -------------------------- *)
\* what stays on record of the frame of an invocation that has ended: the rows
\* it created, the idea and the script it worked from, the media reference it
\* obtained and the error it met (the other locals are of no use once the
\* frame is gone)
EndedLocals(loc) ==
    [NoLocals EXCEPT !.run_id = loc.run_id, !.video_id = loc.video_id,
                     !.idea = loc.idea,
                     !.script = loc.script, !.media_url = loc.media_url,
                     !.error_msg = loc.error_msg, !.raised_at = loc.raised_at]

\* control moves to label with the locals loc
Goto(r, label, loc) ==
    /\ pc' = [pc EXCEPT ![r] = label]
    /\ local' = [local EXCEPT ![r] = loc]

\* workflow.py:164-169  an exception e raised inside the try block: control
\* moves to the except branch with error_msg = str(e); raised_at keeps the
\* step that raised, as the traceback does; the except branch reads nothing
\* of the wait
Raise(r, msg, loc) ==
    Goto(r, "except", [loc EXCEPT !.error_msg = msg, !.raised_at = pc[r], !.elapsed = 0,
                                  !.result = NoResult])

\* run_workflow returns value to its caller
Return(r, value) ==
    /\ pc' = [pc EXCEPT ![r] = "returned"]
    /\ ret' = [ret EXCEPT ![r] = value]
    /\ local' = [local EXCEPT ![r] = EndedLocals(@)]

\* an exception raised outside the try block, or inside the except branch,
\* leaves run_workflow
Propagate(r, msg) ==
    /\ pc' = [pc EXCEPT ![r] = "raised"]
    /\ ret' = [ret EXCEPT ![r] = [kind |-> "raised", error |-> msg]]
    /\ local' = [local EXCEPT ![r] = EndedLocals(@)]

(* -------------------- run_workflow, step by step ---------------------- *)
\* the index handed back by get_next_idea thrown away, as "idea, _ = ..." does
AdvanceIndex_Dropped(idx, e, got) == idx

\* workflow.py:61  self.current_idea_index takes the index get_next_idea hands back
AdvanceIndex(idx, e, got) == [idx EXCEPT ![e] = got[2]]


\* workflow.py:53-54  run_id = self.db.add_workflow_run(); video_id = None
AddWorkflowRun(r) ==
    /\ pc[r] = "idle"
    /\ \E ok \in BOOLEAN :
        IF ok
        THEN /\ workflow_runs' = add_workflow_run(workflow_runs)
             /\ run_log' = Append(run_log, <<"started">>)
             /\ Goto(r, "get_idea", [local[r] EXCEPT !.run_id = Len(workflow_runs) + 1])
             /\ UNCHANGED ret
        ELSE /\ Propagate(r, StoreError)
             /\ UNCHANGED <<workflow_runs, run_log>>
    /\ UNCHANGED <<current_idea_index, videos, called, posts, video_log>>
    /\ UNCHANGED otherVars

\* workflow.py:59-62  idea, self.current_idea_index = get_next_idea(...)
GetNextIdea(r) ==
    /\ pc[r] = "get_idea"
    /\ LET got == get_next_idea(current_idea_index[RunEngine])
       IN  /\ current_idea_index' = AdvanceIndex(current_idea_index, RunEngine, got)
           /\ Goto(r, "generate_script", [local[r] EXCEPT !.idea = got[1]])
    /\ UNCHANGED <<videos, workflow_runs, ret, called, posts, video_log, run_log>>
    /\ UNCHANGED otherVars

\* workflow.py:64-67 and api_clients.py:81-113  generate_script raises (network
\* error, non-JSON content) or returns the JSON object sent; line 67 reads
\* script['title']
GenerateScript(r) ==
    /\ pc[r] = "generate_script"
    /\ called' = [called EXCEPT ![r] = @ \cup {"generate_script"}]
    /\ \/ Raise(r, ScriptError, local[r])
       \/ \E s \in ScriptResponses :
            IF "title" \in s
            THEN Goto(r, "add_video", [local[r] EXCEPT !.script = s])
            ELSE Raise(r, KeyError("title"), [local[r] EXCEPT !.script = s])
    /\ UNCHANGED <<current_idea_index, videos, workflow_runs, ret, posts,
                   video_log, run_log>>
    /\ UNCHANGED otherVars

\* workflow.py:70  video_id = self.db.add_video(idea, script)
AddVideo(r) ==
    /\ pc[r] = "add_video"
    /\ \E ok \in BOOLEAN :
        IF ok
        THEN /\ videos' = add_video(videos)
             /\ video_log' = Append(video_log, <<NewVideoRow>>)
             /\ Goto(r, "create_video", [local[r] EXCEPT !.video_id = Len(videos) + 1])
        ELSE /\ Raise(r, StoreError, local[r])
             /\ UNCHANGED <<videos, video_log>>
    /\ UNCHANGED <<current_idea_index, workflow_runs, ret, called, posts, run_log>>
    /\ UNCHANGED otherVars

\* workflow.py:72-80 and api_clients.py:24-37  script['prompt'] is read, then
\* create_video raises or answers, with or without data.taskId
CreateVideo(r) ==
    /\ pc[r] = "create_video"
    /\ IF "prompt" \notin local[r].script
       THEN /\ Raise(r, KeyError("prompt"), local[r])
            /\ UNCHANGED called
       ELSE /\ called' = [called EXCEPT ![r] = @ \cup {"create_video"}]
            /\ \/ Raise(r, SubmitError, local[r])
               \/ Raise(r, KeyError("taskId"), local[r])
               \/ Goto(r, "set_generating", [local[r] EXCEPT !.task_id = r])
    /\ UNCHANGED <<current_idea_index, videos, workflow_runs, ret, posts,
                   video_log, run_log>>
    /\ UNCHANGED otherVars

\* a store write of kw to the video of invocation r: it commits, or raises
\* leaving the row as it was
WriteVideo(r, kw, ok) ==
    IF ok
    THEN /\ videos' = update_video(videos, local[r].video_id, kw)
         /\ video_log' = LogVideoWrite(video_log, local[r].video_id, kw)
    ELSE UNCHANGED <<videos, video_log>>

\* the status written on its own, the job id being left to a later write
GeneratingUpdate_StatusOnly(task_id) == [status |-> "generating"]

\* workflow.py:81  the kwargs of the write that follows the submit
GeneratingUpdate(task_id) == [sora_task_id |-> task_id, status |-> "generating"]

\* workflow.py:81  self.db.update_video(video_id, sora_task_id=task_id, status='generating')
SetGenerating(r) ==
    /\ pc[r] = "set_generating"
    /\ \E ok \in BOOLEAN :
        /\ WriteVideo(r, GeneratingUpdate(local[r].task_id), ok)
        /\ IF ok THEN Goto(r, "poll", local[r]) ELSE Raise(r, StoreError, local[r])
    /\ UNCHANGED <<current_idea_index, workflow_runs, ret, called, posts, run_log>>
    /\ UNCHANGED otherVars

\* the loop condition with the bound included
WithinBudget_Inclusive(elapsed, budget) == elapsed <= budget

\* api_clients.py:53  time.time() - start_time < max_wait
WithinBudget(elapsed, budget) == elapsed < budget

\* api_clients.py:48-67  one turn of the loop of wait_for_completion: the
\* budget is checked, the status is polled, and a non-terminal status is
\* followed by the sleep. elapsed is time.time() - start_time.
PollStatus(r) ==
    /\ pc[r] = "poll"
    /\ IF ~WithinBudget(local[r].elapsed, max_wait)
       THEN /\ Raise(r, TimedOut, local[r])
            /\ UNCHANGED called
       ELSE /\ called' = [called EXCEPT ![r] = @ \cup {"get_task_status"}]
            /\ \/ Raise(r, StatusError, local[r])
               \/ \E st \in PollStatuses :
                    CASE st = "SUCCESS" ->
                           \E res \in ResultJsons :
                              Goto(r, "parse_result",
                                   [local[r] EXCEPT !.result = res, !.elapsed = 0])
                      [] st \in {"FAILED", "ERROR"} ->
                           Raise(r, GenerationFailed, local[r])
                      [] OTHER ->
                           \E d \in 0..MaxLatency :
                              Goto(r, "poll",
                                   [local[r] EXCEPT !.elapsed = @ + d + check_interval])
    /\ UNCHANGED <<current_idea_index, videos, workflow_runs, ret, posts,
                   video_log, run_log>>
    /\ UNCHANGED otherVars

\* workflow.py:88-93  resultJson, a JSON string or a nested object, gives
\* resultUrls[0]; anything else raises
ParseResult(r) ==
    /\ pc[r] = "parse_result"
    /\ LET got == VideoUrlOf[local[r].result]
       IN  IF got.ok
           THEN Goto(r, "set_generated", [local[r] EXCEPT !.video_url = got.url])
           ELSE Raise(r, got.error, local[r])
    /\ UNCHANGED <<current_idea_index, videos, workflow_runs, ret, called, posts,
                   video_log, run_log>>
    /\ UNCHANGED otherVars

\* workflow.py:95  the kwargs of the write that follows the wait
GeneratedUpdate(video_url) == [video_url |-> video_url, status |-> "generated"]

\* workflow.py:95  self.db.update_video(video_id, video_url=video_url, status='generated')
SetGenerated(r) ==
    /\ pc[r] = "set_generated"
    /\ \E ok \in BOOLEAN :
        /\ WriteVideo(r, GeneratedUpdate(local[r].video_url), ok)
        /\ IF ok THEN Goto(r, "upload_media", local[r])
                 ELSE Raise(r, StoreError, local[r])
    /\ UNCHANGED <<current_idea_index, workflow_runs, ret, called, posts, run_log>>
    /\ UNCHANGED otherVars

\* the post content built without the separating space
post_content_NoSpace(script) ==
    ScriptValue("description")
        \o (IF "hashtags" \in script THEN ScriptValue("hashtags") ELSE "")

\* workflow.py:104  f"{script['description']} {script.get('hashtags', '')}"
post_content(script) ==
    ScriptValue("description") \o " "
        \o (IF "hashtags" \in script THEN ScriptValue("hashtags") ELSE "")

\* workflow.py:98-104 and api_clients.py:127-135  upload_media(video_url)
\* raises or answers, with or without url; then post_content reads
\* script['description']. The result of the wait is not read from here on.
UploadMedia(r) ==
    /\ pc[r] = "upload_media"
    /\ called' = [called EXCEPT ![r] = @ \cup {"upload_media"}]
    /\ \/ Raise(r, UploadError, [local[r] EXCEPT !.uploaded = local[r].video_url])
       \/ Raise(r, KeyError("url"), [local[r] EXCEPT !.uploaded = local[r].video_url])
       \/ IF "description" \in local[r].script
          THEN Goto(r, "create_post",
                    [local[r] EXCEPT !.uploaded = local[r].video_url,
                                     !.result = NoResult,
                                     !.media_url = MediaUrl,
                                     !.post_content = post_content(local[r].script),
                                     !.platform = 1])
          ELSE Raise(r, KeyError("description"),
                     [local[r] EXCEPT !.uploaded = local[r].video_url,
                                      !.media_url = MediaUrl])
    /\ UNCHANGED <<current_idea_index, videos, workflow_runs, ret, posts,
                   video_log, run_log>>
    /\ UNCHANGED otherVars

\* workflow.py:106-149  control after the try/except of platform number i:
\* the next platform's block, or the statements after the last one
AfterPlatform(i) == IF i < Len(Platforms) THEN "create_post" ELSE "set_completed"

\* the flag write placed after the platform's try/except instead of inside the
\* try block: it runs whether create_post returned or raised
AfterCreatePost_FlagAlways(i, ok) == "set_posted"

\* workflow.py:108-120  inside a platform's try block: the update_video that
\* sets the flag follows create_post only when create_post returned
AfterCreatePost(i, ok) == IF ok THEN "set_posted" ELSE AfterPlatform(i)

\* the locals on entry to label from platform number i
PlatformLocals(loc, label) ==
    IF label = "create_post" THEN [loc EXCEPT !.platform = @ + 1] ELSE loc

\* workflow.py:109-116, 125-130, 139-145 and api_clients.py:137-152
\* self.blotato.create_post(platform=..., content=post_content,
\* media_url=media_url) returns or raises
CreatePost(r) ==
    /\ pc[r] = "create_post"
    /\ \E ok \in BOOLEAN :
        LET i == local[r].platform
            label == AfterCreatePost(i, ok)
        IN  /\ posts' = [posts EXCEPT ![r] =
                           Append(@, [platform |-> Platforms[i], ok |-> ok,
                                      content |-> local[r].post_content,
                                      media_url |-> local[r].media_url])]
            /\ Goto(r, label, PlatformLocals(local[r], label))
    /\ UNCHANGED <<current_idea_index, videos, workflow_runs, ret, called,
                   video_log, run_log>>
    /\ UNCHANGED otherVars

\* workflow.py:117, 131, 146  the kwargs of the write that follows a post
PostedUpdate(p) ==
    CASE p = "youtube"   -> [posted_youtube |-> TRUE]
      [] p = "instagram" -> [posted_instagram |-> TRUE]
      [] p = "tiktok"    -> [posted_tiktok |-> TRUE]

\* workflow.py:117-120, 131-134, 146-149  self.db.update_video(video_id,
\* posted_<platform>=True); an exception it raises is caught by the platform's
\* own except and logged as a posting failure
SetPosted(r) ==
    /\ pc[r] = "set_posted"
    /\ \E ok \in BOOLEAN :
        LET i == local[r].platform
            label == AfterPlatform(i)
        IN  /\ WriteVideo(r, PostedUpdate(Platforms[i]), ok)
            /\ Goto(r, label, PlatformLocals(local[r], label))
    /\ UNCHANGED <<current_idea_index, workflow_runs, ret, called, posts, run_log>>
    /\ UNCHANGED otherVars

\* workflow.py:152  the kwargs of the write after the last platform
CompletedUpdate == [status |-> "completed"]

\* workflow.py:151-152  self.db.update_video(video_id, status='completed')
SetCompleted(r) ==
    /\ pc[r] = "set_completed"
    /\ \E ok \in BOOLEAN :
        /\ WriteVideo(r, CompletedUpdate, ok)
        /\ IF ok THEN Goto(r, "close_completed", local[r])
                 ELSE Raise(r, StoreError, local[r])
    /\ UNCHANGED <<current_idea_index, workflow_runs, ret, called, posts, run_log>>
    /\ UNCHANGED otherVars

\* a store write closing the WorkflowRun of invocation r: it commits, or raises
\* leaving the row as it was
CloseRun(r, status, error, ok) ==
    IF ok
    THEN /\ workflow_runs' = complete_workflow_run(workflow_runs, local[r].run_id,
                                                   status, local[r].video_id, error)
         /\ run_log' = LogRunWrite(run_log, local[r].run_id, status)
    ELSE UNCHANGED <<workflow_runs, run_log>>

\* workflow.py:157-162  the result of a run that went through
SuccessResult(loc) ==
    [kind |-> "returned", success |-> TRUE, video_id |-> loc.video_id,
     video_url |-> loc.video_url, title |-> "title"]

\* workflow.py:176-180  the result of a run that failed
FailureResult(loc) ==
    [kind |-> "returned", success |-> FALSE, error |-> loc.error_msg,
     trace |-> format_exc(loc.error_msg)]

\* workflow.py:153-162  self.db.complete_workflow_run(run_id, 'completed', video_id)
\* and the return of the success result
CloseCompleted(r) ==
    /\ pc[r] = "close_completed"
    /\ \E ok \in BOOLEAN :
        /\ CloseRun(r, "completed", NoText, ok)
        /\ IF ok THEN Return(r, SuccessResult(local[r]))
                 ELSE Raise(r, StoreError, local[r]) /\ UNCHANGED ret
    /\ UNCHANGED <<current_idea_index, videos, called, posts, video_log>>
    /\ UNCHANGED otherVars

\* the except branch putting the record back to its first status, as a handler
\* that prepares a retry would
FailedUpdate_Reset(error_msg) == [status |-> "created", error |-> error_msg]

\* workflow.py:172  the kwargs of the write in the except branch
FailedUpdate(error_msg) == [status |-> "failed", error |-> error_msg]

\* workflow.py:164-172  except Exception: if video_id: update_video(video_id,
\* status='failed', error=error_msg); an exception raised here leaves run_workflow
ExceptUpdateVideo(r) ==
    /\ pc[r] = "except"
    /\ IF local[r].video_id = None
       THEN /\ Goto(r, "except_close", local[r])
            /\ UNCHANGED <<videos, video_log, ret>>
       ELSE \E ok \in BOOLEAN :
            /\ WriteVideo(r, FailedUpdate(local[r].error_msg), ok)
            /\ IF ok THEN Goto(r, "except_close", local[r]) /\ UNCHANGED ret
                     ELSE Propagate(r, StoreError)
    /\ UNCHANGED <<current_idea_index, workflow_runs, called, posts, run_log>>
    /\ UNCHANGED otherVars

\* workflow.py:174-180  complete_workflow_run(run_id, 'failed', video_id,
\* error_msg) and the return of the failure result
ExceptCloseRun(r) ==
    /\ pc[r] = "except_close"
    /\ \E ok \in BOOLEAN :
        /\ CloseRun(r, "failed", local[r].error_msg, ok)
        /\ IF ok THEN Return(r, FailureResult(local[r]))
                 ELSE Propagate(r, StoreError)
    /\ UNCHANGED <<current_idea_index, videos, called, posts, video_log>>
    /\ UNCHANGED otherVars

(* --------------------------- specification ---------------------------- *)
\* invocation r has ended: it returned, or an exception left it
Ended(r) == pc[r] \in {"returned", "raised"}

\* scheduler.py:37-47: the scheduler calls run_workflow of its engine, and
\* calls it again after the call before has ended
MayStart(r) == IF r = 1 THEN TRUE ELSE Ended(r - 1)

\* the host calls run_workflow: its first statement runs
StartRun(r) == MayStart(r) /\ AddWorkflowRun(r)

Next ==
    \E r \in Runs :
        \/ StartRun(r)
        \/ GetNextIdea(r)
        \/ GenerateScript(r)
        \/ AddVideo(r)
        \/ CreateVideo(r)
        \/ SetGenerating(r)
        \/ PollStatus(r)
        \/ ParseResult(r)
        \/ SetGenerated(r)
        \/ UploadMedia(r)
        \/ CreatePost(r)
        \/ SetPosted(r)
        \/ SetCompleted(r)
        \/ CloseCompleted(r)
        \/ ExceptUpdateVideo(r)
        \/ ExceptCloseRun(r)

Spec == Init /\ [][Next]_vars

\* every call of a collaborator and of the store returns or raises, and the
\* clock moves on while wait_for_completion sleeps: a run that can take a step
\* takes one
SpecFair == Spec /\ WF_vars(Next)

\* the process dies while invocation r is between two statements: no
\* statement of it runs again, except branch included, and the store keeps
\* what was committed
Crash(r) ==
    /\ pc[r] \notin {"idle", "returned", "raised", "crashed"}
    /\ pc' = [pc EXCEPT ![r] = "crashed"]
    /\ ret' = [ret EXCEPT ![r] = [kind |-> "crashed", at |-> pc[r]]]
    /\ local' = [local EXCEPT ![r] = EndedLocals(@)]
    /\ UNCHANGED <<current_idea_index, videos, workflow_runs, called, posts,
                   video_log, run_log>>
    /\ UNCHANGED otherVars

CrashNext ==
    \/ Next
    \/ \E r \in Runs : Crash(r)

\* the invocations of Spec, in a process that can die at any point
SpecCrash == Init /\ [][CrashNext]_vars

(* ---------------------- two invocations at once ----------------------- *)
\* app.py:56-63: a request to /api/workflow/run calls run_workflow of
\* workflow_engine in the thread that serves it; two requests are in flight
Callers == {1, 2}

\* app.py:25
SharedEngine == "workflow_engine"

\* the index of the engine when the two requests arrive: a fresh engine, or
\* one that has gone once around the bank but for its last idea
StartIndexes == {0, NumIdeas - 1}

\* workflow.py:25-31 and database.py:23-81: the engine and an empty store
\* before the two requests
ConcInit ==
    /\ IDEAS = DefaultIdeas
    /\ \E i \in StartIndexes :
         current_idea_index = [e \in Engines |-> IF e = SharedEngine THEN i ELSE 0]
    /\ videos = <<>>
    /\ workflow_runs = <<>>
    /\ pc = [r \in Callers |-> "idle"]
    /\ local = [r \in Callers |-> NoLocals]
    /\ ret = [r \in Callers |-> NoReturn]
    /\ called = [r \in Callers |-> {}]
    /\ posts = [r \in Callers |-> <<>>]
    /\ video_log = <<>>
    /\ run_log = <<>>
    /\ IdleIdeas
    /\ IdleHost
    /\ IdleExecutor
    /\ IdleParse
    /\ IdleWait
    /\ IdleThreads

\* workflow.py:61, right-hand side: self.current_idea_index is read and
\* get_next_idea returns the tuple (idea, next index)
LoadNextIdea(r) ==
    /\ pc[r] = "get_idea"
    /\ LET got == get_next_idea(current_idea_index[SharedEngine])
       IN  Goto(r, "store_index",
                [local[r] EXCEPT !.idea = got[1], !.next_index = got[2]])
    /\ UNCHANGED <<current_idea_index, videos, workflow_runs, ret, called, posts,
                   video_log, run_log>>
    /\ UNCHANGED otherVars

\* workflow.py:61, left-hand side: the tuple is unpacked into idea and
\* self.current_idea_index
StoreIndex(r) ==
    /\ pc[r] = "store_index"
    /\ current_idea_index' =
         [current_idea_index EXCEPT ![SharedEngine] = local[r].next_index]
    /\ Goto(r, "generate_script", [local[r] EXCEPT !.next_index = -1])
    /\ UNCHANGED <<videos, workflow_runs, ret, called, posts, video_log, run_log>>
    /\ UNCHANGED otherVars

\* api_clients.py:48-67  wait_for_completion as one step: it returns the
\* result of the first SUCCESS poll, or raises
WaitForCompletion(r) ==
    /\ pc[r] = "poll"
    /\ called' = [called EXCEPT ![r] = @ \cup {"get_task_status"}]
    /\ \/ \E res \in ResultJsons :
            Goto(r, "parse_result", [local[r] EXCEPT !.result = res])
       \/ \E msg \in {StatusError, GenerationFailed, TimedOut} :
            Raise(r, msg, local[r])
    /\ UNCHANGED <<current_idea_index, videos, workflow_runs, ret, posts,
                   video_log, run_log>>
    /\ UNCHANGED otherVars

\* the result the waits of the two invocations return
ConcResult == StringResult(JsonText(SampleUrls, "spaced"))

\* the collaborators the two invocations are run against: a generator that
\* sends the full script, a wait that returns ConcResult, and a posting
\* service that is up for a whole invocation or down for the whole of it;
\* each of their calls, and each store call, still returns or raises
ConcEnv ==
    \A r \in Callers :
        /\ local[r].script \in {{}, ScriptFields}
        /\ local[r].result \in {NoResult, ConcResult}
        /\ \A i \in DOMAIN posts[r] : posts[r][i].ok = posts[r][1].ok

\* the two invocations take their steps in any order, their collaborators
\* answering within ConcEnv; every store call is one transaction on a
\* connection of its own (database.py:19-21)
ConcNext ==
    \E r \in Callers :
        \/ AddWorkflowRun(r)
        \/ LoadNextIdea(r)
        \/ StoreIndex(r)
        \/ GenerateScript(r) /\ ConcEnv'
        \/ AddVideo(r)
        \/ CreateVideo(r)
        \/ SetGenerating(r)
        \/ WaitForCompletion(r) /\ ConcEnv'
        \/ ParseResult(r)
        \/ SetGenerated(r)
        \/ UploadMedia(r)
        \/ CreatePost(r) /\ ConcEnv'
        \/ SetPosted(r)
        \/ SetCompleted(r)
        \/ CloseCompleted(r)
        \/ ExceptUpdateVideo(r)
        \/ ExceptCloseRun(r)

SpecConcurrent == ConcInit /\ [][ConcNext]_vars

(* ------------------------- the dashboard host ------------------------- *)
\* The host calls run_workflow on one of its two engines, one call after
\* another. Of a call, what the rotation of ideas depends on is kept: whether
\* add_workflow_run returned, the get_next_idea statement, and how the call
\* ended; the rows the call writes are those of Spec.
HostBusy == call.at # "none"

OpenedCalls == opened["workflow_engine"] + opened["scheduler.engine"]

\* app.py:66-78 and scheduler.py:54-61  POST /api/scheduler/start: rejected when
\* the flag is set; else the flag is set and the thread enters scheduler.start
StartScheduler ==
    /\ ~HostBusy
    /\ ~scheduler_running
    /\ scheduler_running' = TRUE
    /\ is_running' = TRUE
    /\ UNCHANGED <<call, opened, used, IDEAS, current_idea_index, runVars, ideaVars, execVars, parseVars, waitVars, threadVars>>

\* app.py:81-92 and scheduler.py:77-80  POST /api/scheduler/stop: rejected when
\* the flag is clear; else scheduler.stop() and the flag is cleared
StopScheduler ==
    /\ ~HostBusy
    /\ scheduler_running
    /\ scheduler_running' = FALSE
    /\ is_running' = FALSE
    /\ UNCHANGED <<call, opened, used, IDEAS, current_idea_index, runVars, ideaVars, execVars, parseVars, waitVars, threadVars>>

\* the host enters run_workflow of engine e
BeginCall(via, e) ==
    /\ ~HostBusy
    /\ OpenedCalls < MaxCalls
    /\ call' = [at |-> "open", via |-> via, engine |-> e]
    /\ UNCHANGED <<scheduler_running, is_running, opened, used, IDEAS,
                   current_idea_index, runVars, ideaVars, execVars, parseVars, waitVars, threadVars>>

\* app.py:56-60  POST /api/workflow/run: workflow_engine.run_workflow()
ManualTrigger == BeginCall("manual", "workflow_engine")

\* scheduler.py:37-40, 66-69  a slot of the schedule comes up while the loop
\* runs: self.engine.run_workflow()
ScheduledRun == is_running /\ BeginCall("scheduled", "scheduler.engine")

\* app.py:59-63 and scheduler.py:40-47, 66-75  run_workflow has ended: the
\* route answers with the result, or with 500 when the call raised; the
\* scheduler reads result['success'], and an exception of the call ends its
\* loop through the except and finally of start()
EndCall(raised) ==
    /\ call' = NoCall
    /\ is_running' = IF raised /\ call.via = "scheduled" THEN FALSE ELSE is_running
    /\ UNCHANGED scheduler_running

\* workflow.py:53  run_id = self.db.add_workflow_run(): it returns, or raises
\* out of run_workflow
HostOpenRun ==
    /\ call.at = "open"
    /\ \/ /\ opened' = [opened EXCEPT ![call.engine] = @ + 1]
          /\ call' = [call EXCEPT !.at = "get_idea"]
          /\ UNCHANGED <<scheduler_running, is_running>>
       \/ /\ EndCall(TRUE)
          /\ UNCHANGED opened
    /\ UNCHANGED <<used, IDEAS, current_idea_index, runVars, ideaVars, execVars, parseVars, waitVars, threadVars>>

\* workflow.py:59-62  idea, self.current_idea_index = get_next_idea(...)
HostGetNextIdea ==
    /\ call.at = "get_idea"
    /\ LET got == get_next_idea(current_idea_index[call.engine])
       IN  /\ current_idea_index' = AdvanceIndex(current_idea_index, call.engine, got)
           /\ used' = Append(used, [engine |-> call.engine, idea |-> got[1]])
    /\ call' = [call EXCEPT !.at = "rest"]
    /\ UNCHANGED <<scheduler_running, is_running, opened, IDEAS, runVars, ideaVars,
                   execVars, parseVars, waitVars, threadVars>>

\* the ways a run that has its idea can end
Outcomes == {"success", "failure", "raised"}

\* workflow.py:64-180  the rest of the run: it returns the success result,
\* returns the failure result, or raises from its except branch
HostFinishRun ==
    /\ call.at = "rest"
    /\ \E outcome \in Outcomes : EndCall(outcome = "raised")
    /\ UNCHANGED <<opened, used, IDEAS, current_idea_index, runVars, ideaVars, execVars, parseVars, waitVars, threadVars>>

HostNext ==
    \/ StartScheduler
    \/ StopScheduler
    \/ ManualTrigger
    \/ ScheduledRun
    \/ HostOpenRun
    \/ HostGetNextIdea
    \/ HostFinishRun

SpecHost == Init /\ [][HostNext]_vars

(* --------------------- the threads of the scheduler ------------------- *)
\* what the threads of the scheduler leave alone
notThreadVars ==
    <<call, opened, used, IDEAS, current_idea_index, runVars, ideaVars, execVars,
      parseVars, waitVars>>

\* thread t moves to position at
ThreadGoto(t, at) == threads' = [threads EXCEPT ![t] = at]

\* the positions of a thread inside the loop of scheduler.start
LoopPositions == {"loop", "run_pending", "sleep"}

\* the threads that are inside the loop
AliveLoops == {t \in DOMAIN threads : threads[t] \in LoopPositions}

\* app.py:66-78  POST /api/scheduler/start: rejected when scheduler_running
\* is set; else the flag is set and a thread is started on scheduler.start
StartRequest ==
    /\ ~scheduler_running
    /\ Len(threads) < MaxThreads
    /\ scheduler_running' = TRUE
    /\ threads' = Append(threads, "entry")
    /\ UNCHANGED <<is_running, notThreadVars>>

\* app.py:81-92 and scheduler.py:77-80  POST /api/scheduler/stop: rejected when
\* scheduler_running is clear; else scheduler.stop() clears is_running, and
\* the flag is cleared; no thread is joined
StopRequest ==
    /\ scheduler_running
    /\ is_running' = FALSE
    /\ scheduler_running' = FALSE
    /\ UNCHANGED <<threads, notThreadVars>>

\* scheduler.py:56-58  if self.is_running: return
ThreadEnter(t) ==
    /\ t \in DOMAIN threads
    /\ threads[t] = "entry"
    /\ ThreadGoto(t, IF is_running THEN "exited" ELSE "set_running")
    /\ UNCHANGED <<scheduler_running, is_running, notThreadVars>>

\* scheduler.py:60-64  self.is_running = True; self.setup_schedule()
ThreadSetRunning(t) ==
    /\ t \in DOMAIN threads
    /\ threads[t] = "set_running"
    /\ is_running' = TRUE
    /\ ThreadGoto(t, "loop")
    /\ UNCHANGED <<scheduler_running, notThreadVars>>

\* scheduler.py:67, 74-75  while self.is_running: the body runs, or the loop
\* is left and the finally clears is_running
ThreadLoop(t) ==
    /\ t \in DOMAIN threads
    /\ threads[t] = "loop"
    /\ IF is_running
       THEN ThreadGoto(t, "run_pending") /\ UNCHANGED is_running
       ELSE ThreadGoto(t, "exited") /\ is_running' = FALSE
    /\ UNCHANGED <<scheduler_running, notThreadVars>>

\* scheduler.py:68, 72-75  schedule.run_pending() returns, or raises: the except
\* logs the error and the finally clears is_running
ThreadRunPending(t) ==
    /\ t \in DOMAIN threads
    /\ threads[t] = "run_pending"
    /\ \/ ThreadGoto(t, "sleep") /\ UNCHANGED is_running
       \/ ThreadGoto(t, "exited") /\ is_running' = FALSE
    /\ UNCHANGED <<scheduler_running, notThreadVars>>

\* scheduler.py:69  time.sleep(1)
ThreadSleep(t) ==
    /\ t \in DOMAIN threads
    /\ threads[t] = "sleep"
    /\ ThreadGoto(t, "loop")
    /\ UNCHANGED <<scheduler_running, is_running, notThreadVars>>

\* the requests are served and the threads run in any order
ThreadsNext ==
    \/ StartRequest
    \/ StopRequest
    \/ \E t \in 1..MaxThreads :
        \/ ThreadEnter(t)
        \/ ThreadSetRunning(t)
        \/ ThreadLoop(t)
        \/ ThreadRunPending(t)
        \/ ThreadSleep(t)

SpecThreads == Init /\ [][ThreadsNext]_vars

(* ----------------------- the workflow executor ----------------------- *)
\* workflow_manager.py:299-308 and workflow_executor.py:95-99, 151: the configs
\* of video_creation workflows: one with a custom idea and no platform list,
\* one on the default idea bank whose list names a platform the executor
\* does not know
VideoConfigs ==
    {[idea_bank |-> "custom"],
     [idea_bank |-> "default", platforms |-> <<"youtube", "facebook">>]}

\* workflow_executor.py:54-63: the workflow types: video_creation, a type
\* with a placeholder executor, and a type execute_workflow does not know
WorkflowKinds ==
    {[type |-> "video_creation", config |-> c] : c \in VideoConfigs}
        \cup {[type |-> t, config |-> [idea_bank |-> "custom"]] :
                 t \in {"engagement", "report"}}

\* workflow_manager.py:61-82  create_workflow: the table after the insert
create_workflow(tbl, kind) ==
    Append(tbl, [type |-> kind.type, config |-> kind.config, status |-> "active",
                 total_runs |-> 0, successful_runs |-> 0, failed_runs |-> 0])

\* the row of a workflow that was deleted: its id is not given again
\* (AUTOINCREMENT, workflow_manager.py:28), and no statement finds it
DeletedWorkflow ==
    [type |-> NoText, config |-> [idea_bank |-> NoText], status |-> "deleted",
     total_runs |-> 0, successful_runs |-> 0, failed_runs |-> 0]

\* the ids "WHERE id = ?" finds a row for
LiveIds(tbl) == {id \in DOMAIN tbl : tbl[id].status # "deleted"}

\* workflow_manager.py:141-170  update_workflow(workflow_id, status=...)
update_workflow(tbl, id, status) ==
    IF id \in LiveIds(tbl) THEN [tbl EXCEPT ![id].status = status] ELSE tbl

\* workflow_manager.py:177  DELETE FROM workflows WHERE id = ?
delete_workflow(tbl, id) ==
    IF id \in LiveIds(tbl) THEN [tbl EXCEPT ![id] = DeletedWorkflow] ELSE tbl

\* workflow_manager.py:178  DELETE FROM workflow_executions WHERE workflow_id = ?
delete_executions(rows, id) ==
    LET Kept(row) == row.workflow_id # id
    IN  SelectSeq(rows, Kept)

\* workflow_manager.py:189-198  the row log_execution inserts
ExecutionRow(id, status, error) == [workflow_id |-> id, status |-> status, error |-> error]

\* workflow_manager.py:202-218  the counters of workflow id after log_execution
CountExecution(tbl, id, status) ==
    IF id \notin LiveIds(tbl) THEN tbl
    ELSE IF status = "success"
         THEN [tbl EXCEPT ![id].total_runs = @ + 1, ![id].successful_runs = @ + 1]
         ELSE [tbl EXCEPT ![id].total_runs = @ + 1, ![id].failed_runs = @ + 1]

\* a call of execute_workflow is in progress
XBusy == xpc \notin {"idle", "done"}

\* what the executor leaves alone
notExecVars == <<IDEAS, current_idea_index, runVars, ideaVars, hostVars, parseVars, waitVars, threadVars>>

\* the operator creates a workflow (between two executions)
CreateWorkflow ==
    /\ ~XBusy
    /\ Len(workflows) < MaxWorkflows
    /\ \E kind \in WorkflowKinds : workflows' = create_workflow(workflows, kind)
    /\ UNCHANGED <<workflow_executions, xpc, xlocal, xret, xcalled, xposts, execs,
                   exec_ideas, notExecVars>>

\* workflow_manager.py:164-166  pause_workflow
PauseWorkflow ==
    /\ ~XBusy
    /\ \E id \in DOMAIN workflows :
        /\ workflows[id].status = "active"
        /\ workflows' = update_workflow(workflows, id, "paused")
    /\ UNCHANGED <<workflow_executions, xpc, xlocal, xret, xcalled, xposts, execs,
                   exec_ideas, notExecVars>>

\* workflow_manager.py:168-170  resume_workflow
ResumeWorkflow ==
    /\ ~XBusy
    /\ \E id \in DOMAIN workflows :
        /\ workflows[id].status = "paused"
        /\ workflows' = update_workflow(workflows, id, "active")
    /\ UNCHANGED <<workflow_executions, xpc, xlocal, xret, xcalled, xposts, execs,
                   exec_ideas, notExecVars>>

\* control of the execution moves to label with the locals loc
XGoto(label, loc) == xpc' = label /\ xlocal' = loc

\* execute_workflow returns value, or an exception leaves it; its locals are
\* gone
XReturn(value) == xpc' = "done" /\ xret' = value /\ xlocal' = NoXLocals

\* workflow_executor.py:75-80  an exception inside the try block of
\* execute_workflow, raised by the executor of the type or by log_execution
XRaise(msg, loc) ==
    XGoto("crash", [loc EXCEPT !.error_msg = msg, !.raised_at = xpc])

\* workflow_executor.py:45, 48, 63  a failure result that carries only the error
XFailure(msg) == [kind |-> "returned", success |-> FALSE, error |-> msg]

WorkflowNotFound == "Workflow not found"
WorkflowPaused == "Workflow is paused"
UnknownType == "Unknown workflow type: report"

\* workflow_executor.py:40-50  execute_workflow(id): get_workflow (which may
\* raise, outside the try), the two early returns, else on to the routing;
\* nothing of the call before is left but the tables
ExecuteWorkflow ==
    /\ ~XBusy
    /\ execs < MaxExecs
    /\ execs' = execs + 1
    /\ xcalled' = {}
    /\ xposts' = <<>>
    /\ \E id \in 1..MaxWorkflows : \E ok \in BOOLEAN :
        LET loc == [NoXLocals EXCEPT !.workflow_id = id]
        IN  IF ~ok
            THEN XReturn([kind |-> "raised", error |-> StoreError])
            ELSE IF id \notin LiveIds(workflows)
            THEN XReturn(XFailure(WorkflowNotFound))
            ELSE IF workflows[id].status # "active"
            THEN XReturn(XFailure(WorkflowPaused))
            ELSE /\ XGoto("route", [loc EXCEPT !.workflow =
                        [type |-> workflows[id].type, status |-> workflows[id].status,
                         config |-> workflows[id].config]])
                 /\ xret' = NoReturn
    /\ UNCHANGED <<workflows, workflow_executions, exec_ideas, notExecVars>>

\* workflow_executor.py:201-212  the result of a placeholder executor
PlaceholderResult(id) ==
    [kind |-> "returned", success |-> TRUE, workflow_id |-> id,
     message |-> "Engagement workflow (coming soon)"]

\* workflow_executor.py:52-63  the routing on the type of the workflow
RouteWorkflow ==
    /\ xpc = "route"
    /\ CASE xlocal.workflow.type = "video_creation" -> XGoto("get_idea", xlocal)
         [] xlocal.workflow.type = "engagement" ->
               XGoto("log", [xlocal EXCEPT !.result = PlaceholderResult(xlocal.workflow_id)])
         [] OTHER ->
               XGoto("log", [xlocal EXCEPT !.result = XFailure(UnknownType)])
    /\ UNCHANGED <<workflows, workflow_executions, xret, xcalled, xposts, execs,
                   exec_ideas, notExecVars>>

\* workflow_executor.py:92-101  idea, _ = get_next_idea() for the default bank
\* (current_index takes its default 0, ideas.py:111, and the index handed
\* back is dropped); else the custom idea of the config
ExecGetIdea ==
    /\ xpc = "get_idea"
    /\ IF xlocal.workflow.config.idea_bank = "default"
       THEN LET got == get_next_idea(0)
            IN  /\ XGoto("chat", [xlocal EXCEPT !.from_bank = TRUE, !.idea = got[1]])
                /\ exec_ideas' = Append(exec_ideas, [workflow_id |-> xlocal.workflow_id,
                                                       idea |-> got[1]])
       ELSE /\ XGoto("chat", xlocal)
            /\ UNCHANGED exec_ideas
    /\ UNCHANGED <<workflows, workflow_executions, xret, xcalled, xposts, execs,
                   notExecVars>>

\* ai_client.py:60-73  what chat returns: the content the model sent, which is
\* a JSON object, JSON of another shape, or prose; or, after any exception of
\* the request, the text of the error. chat itself never raises.
ChatKinds == {"object", "other_json", "prose", "error"}

ProseText == "Sure! A baby goat hops around the camera."
\* ai_client.py:73
ChatErrorText == "Error communicating with AI: 503 Server Error"

\* workflow_executor.py:114  idea.get('slug', 'content')
Slug(loc) == IF loc.from_bank THEN ToString(loc.idea) ELSE "content"

\* Python's text[:200]
Slice200(text) == SubSeq(text, 1, IF Len(text) < 200 THEN Len(text) ELSE 200)

\* workflow_executor.py:111-118  the script built when the response is not JSON
FallbackScript(loc, text) ==
    [title |-> "Video about " \o Slug(loc), description |-> Slice200(text),
     prompt |-> text, hashtags |-> "#cute #viral #pets"]

\* script.get(f, default)
ScriptGet(script, f, default) == IF f \in DOMAIN script THEN script[f] ELSE default

\* workflow_executor.py:108-120  after the response: json.loads and, when it
\* raises, the fallback script, then on to the submit; JSON that is no
\* object raises at script.get (line 120)
AfterChat(kind) == IF kind = "other_json" THEN "crash" ELSE "create_video"

\* workflow_executor.py:103-120  script_response = self.ai.chat(...), then the
\* parse of the response
ExecChat ==
    /\ xpc = "chat"
    /\ xcalled' = xcalled \cup {"chat"}
    /\ \E kind \in ChatKinds :
        LET label == AfterChat(kind)
            loc == [xlocal EXCEPT !.chat = kind]
        IN  IF label = "crash"
            THEN XRaise(AttributeError, loc)
            ELSE CASE kind = "object" ->
                        \E F \in ScriptResponses :
                            XGoto(label, [loc EXCEPT !.script =
                                              [f \in F |-> ScriptValue(f)]])
                   [] kind = "prose" ->
                        XGoto(label, [loc EXCEPT !.script = FallbackScript(loc, ProseText)])
                   [] OTHER ->
                        XGoto(label, [loc EXCEPT !.script =
                                          FallbackScript(loc, ChatErrorText)])
    /\ UNCHANGED <<workflows, workflow_executions, xret, xposts, execs, exec_ideas,
                   notExecVars>>

\* workflow_executor.py:122-130  create_video(prompt=script.get('prompt',
\* script.get('description'))) raises or answers, with or without data.taskId
ExecCreateVideo ==
    /\ xpc = "create_video"
    /\ xcalled' = xcalled \cup {"create_video"}
    /\ LET prompt == ScriptGet(xlocal.script, "prompt",
                               ScriptGet(xlocal.script, "description", NoText))
           loc == [xlocal EXCEPT !.prompt = prompt]
       IN  \/ XRaise(SubmitError, loc)
           \/ XRaise(KeyError("taskId"), loc)
           \/ XGoto("poll", [loc EXCEPT !.task_id = execs])
    /\ UNCHANGED <<workflows, workflow_executions, xret, xposts, execs, exec_ideas,
                   notExecVars>>

\* api_clients.py:48-67  the ways wait_for_completion(task_id, max_wait=600)
\* ends: it returns the data of a task in state SUCCESS, or raises for a failed
\* task, for a request that failed, or after max_wait seconds
WaitOutcomes == {"SUCCESS", GenerationFailed, StatusError, TimedOut}

\* workflow_executor.py:132-134  result = self.kie.wait_for_completion(task_id,
\* max_wait=600), the whole call: its first turn always asks for the status
ExecPoll ==
    /\ xpc = "poll"
    /\ xcalled' = xcalled \cup {"get_task_status"}
    /\ \E outcome \in WaitOutcomes :
        IF outcome = "SUCCESS"
        THEN \E res \in ResultJsons :
                 XGoto("parse_result", [xlocal EXCEPT !.result_json = res])
        ELSE XRaise(outcome, xlocal)
    /\ UNCHANGED <<workflows, workflow_executions, xret, xposts, execs, exec_ideas,
                   notExecVars>>

\* workflow_executor.py:136-143  resultUrls[0] of resultJson, string or object
ExecParseResult ==
    /\ xpc = "parse_result"
    /\ LET got == VideoUrlOf[xlocal.result_json]
           loc == [xlocal EXCEPT !.result_json = NoResult]
       IN  IF got.ok
           THEN XGoto("upload_media", [loc EXCEPT !.video_url = got.url])
           ELSE XRaise(got.error, loc)
    /\ UNCHANGED <<workflows, workflow_executions, xret, xcalled, xposts, execs,
                   exec_ideas, notExecVars>>

\* workflow_executor.py:154  f"{script.get('description', '')} {script.get('hashtags', '')}"
exec_post_content(script) ==
    ScriptGet(script, "description", "") \o " " \o ScriptGet(script, "hashtags", "")

\* workflow_executor.py:145-154  upload_media raises or answers, with or without
\* url; then the platform list and the post content
ExecUploadMedia ==
    /\ xpc = "upload_media"
    /\ xcalled' = xcalled \cup {"upload_media"}
    /\ \/ XRaise(UploadError, [xlocal EXCEPT !.uploaded = xlocal.video_url])
       \/ XRaise(KeyError("url"), [xlocal EXCEPT !.uploaded = xlocal.video_url])
       \/ XGoto("post", [xlocal EXCEPT !.uploaded = xlocal.video_url,
                                       !.media_url = MediaUrl,
                                       !.post_content = exec_post_content(xlocal.script),
                                       !.i = 1, !.posted_to = <<>>])
    /\ UNCHANGED <<workflows, workflow_executions, xret, xposts, execs, exec_ideas,
                   notExecVars>>

\* workflow_executor.py:151  config.get('platforms', ['tiktok', 'instagram', 'youtube'])
ConfigPlatforms(config) ==
    IF "platforms" \in DOMAIN config THEN config.platforms
    ELSE <<"tiktok", "instagram", "youtube">>

\* workflow_executor.py:156-189  one turn of the loop over the platforms: the
\* create_post of a platform the if/elif chain knows, which returns or raises;
\* posted_to.append(platform) follows unless create_post raised, also for a
\* platform the chain does not know, for which no call is made
ExecPost ==
    /\ xpc = "post"
    /\ xlocal.i <= Len(ConfigPlatforms(xlocal.workflow.config))
    /\ LET p == ConfigPlatforms(xlocal.workflow.config)[xlocal.i]
           next == [xlocal EXCEPT !.i = @ + 1]
           appended == [next EXCEPT !.posted_to = Append(@, p)]
       IN  IF p \in PlatformSet
           THEN \E ok \in BOOLEAN :
                /\ xposts' = Append(xposts, [platform |-> p, ok |-> ok,
                                             content |-> xlocal.post_content,
                                             media_url |-> xlocal.media_url])
                /\ XGoto("post", IF ok THEN appended ELSE next)
           ELSE /\ XGoto("post", appended)
                /\ UNCHANGED xposts
    /\ UNCHANGED <<workflows, workflow_executions, xret, xcalled, execs, exec_ideas,
                   notExecVars>>

\* workflow_executor.py:191-199  the result of _execute_video_creation
VideoCreationResult(loc) ==
    [kind |-> "returned", success |-> TRUE, workflow_id |-> loc.workflow_id,
     video_url |-> loc.video_url,
     title |-> ScriptGet(loc.script, "title", NoText), posted_to |-> loc.posted_to,
     idea_slug |-> IF loc.from_bank THEN ToString(loc.idea) ELSE "custom"]

\* workflow_executor.py:156, 191-199  the loop is over: _execute_video_creation
\* returns its result to execute_workflow
ExecReturn ==
    /\ xpc = "post"
    /\ xlocal.i > Len(ConfigPlatforms(xlocal.workflow.config))
    /\ XGoto("log", [xlocal EXCEPT !.result = VideoCreationResult(xlocal)])
    /\ UNCHANGED <<workflows, workflow_executions, xret, xcalled, xposts, execs,
                   exec_ideas, notExecVars>>

\* workflow_manager.py:183-223  log_execution: the insert and the update of the
\* counters, committed together
log_execution(id, status, error) ==
    /\ workflow_executions' = Append(workflow_executions, ExecutionRow(id, status, error))
    /\ workflows' = CountExecution(workflows, id, status)

\* workflow_executor.py:65-73  the execution is logged by result['success'] and
\* the result returned; log_execution raising is caught at line 75
LogExecution ==
    /\ xpc = "log"
    /\ \E ok \in BOOLEAN :
        IF ok
        THEN /\ IF xlocal.result.success
                THEN log_execution(xlocal.workflow_id, "success", NoText)
                ELSE log_execution(xlocal.workflow_id, "failed", xlocal.result.error)
             /\ XReturn(xlocal.result)
        ELSE /\ XRaise(StoreError, xlocal)
             /\ UNCHANGED <<workflows, workflow_executions, xret>>
    /\ UNCHANGED <<xcalled, xposts, execs, exec_ideas, notExecVars>>

\* workflow_executor.py:75-88  except Exception: the execution is logged as
\* failed and the failure result returned; log_execution raising here leaves
\* execute_workflow
CrashHandler ==
    /\ xpc = "crash"
    /\ \E ok \in BOOLEAN :
        IF ok
        THEN /\ log_execution(xlocal.workflow_id, "failed", xlocal.error_msg)
             /\ XReturn([kind |-> "returned", success |-> FALSE,
                          error |-> xlocal.error_msg,
                          trace |-> format_exc(xlocal.error_msg)])
        ELSE /\ XReturn([kind |-> "raised", error |-> StoreError])
             /\ UNCHANGED <<workflows, workflow_executions>>
    /\ UNCHANGED <<xcalled, xposts, execs, exec_ideas, notExecVars>>

\* workflow_manager.py:183-223  log_execution called on its own, between two
\* executions, for any workflow id and status: nothing in it looks the
\* workflow up, and the reference of workflow_executions to workflows is not
\* enforced by the connection (no PRAGMA foreign_keys); it commits, or raises
\* and writes nothing
LogExecutionCall ==
    /\ ~XBusy
    /\ Len(workflow_executions) < MaxExecs
    /\ \E id \in 1..MaxWorkflows : \E status \in {"success", "failed"} :
        \E ok \in BOOLEAN :
            IF ok THEN log_execution(id, status, NoText)
                  ELSE UNCHANGED <<workflows, workflow_executions>>
    /\ UNCHANGED <<xpc, xlocal, xret, xcalled, xposts, execs, exec_ideas, notExecVars>>

\* the operations of the WorkflowManager that keep a workflow
ManagerNext ==
    \/ CreateWorkflow
    \/ PauseWorkflow
    \/ ResumeWorkflow

\* the steps of a call of execute_workflow
CallNext ==
    \/ ExecuteWorkflow
    \/ RouteWorkflow
    \/ ExecGetIdea
    \/ ExecChat
    \/ ExecCreateVideo
    \/ ExecPoll
    \/ ExecParseResult
    \/ ExecUploadMedia
    \/ ExecPost
    \/ ExecReturn
    \/ LogExecution
    \/ CrashHandler

ExecNext ==
    \/ ManagerNext
    \/ LogExecutionCall
    \/ CallNext

SpecExecutor == Init /\ [][ExecNext]_vars

\* workflow_manager.py:172-181  delete_workflow, called by another thread or
\* process than the one that executes: the two DELETEs are committed
\* together, or the call raises and deletes nothing; it can fall between any
\* two steps of an execution
DeleteWorkflow ==
    /\ \E id \in LiveIds(workflows) : \E ok \in BOOLEAN :
        IF ok
        THEN /\ workflows' = delete_workflow(workflows, id)
             /\ workflow_executions' = delete_executions(workflow_executions, id)
        ELSE UNCHANGED <<workflows, workflow_executions>>
    /\ UNCHANGED <<xpc, xlocal, xret, xcalled, xposts, execs, exec_ideas, notExecVars>>

DeleteNext ==
    \/ ManagerNext
    \/ CallNext
    \/ DeleteWorkflow

\* executions and deletions of workflows, interleaved
SpecDelete == Init /\ [][DeleteNext]_vars

(* ------------------- get_next_idea on any idea bank ------------------- *)
\* the idea banks of 1 to MaxCatalog ideas
Catalogs == {[k \in 1..n |-> k - 1] : n \in 1..MaxCatalog}

\* a caller about to iterate get_next_idea over some bank from some index
IdeasInit ==
    /\ IDEAS \in Catalogs
    /\ idea_index \in -MaxIndex..MaxIndex
    /\ served = <<>>
    /\ current_idea_index = [e \in Engines |-> 0]
    /\ IdleRuns
    /\ IdleHost
    /\ IdleExecutor
    /\ IdleParse
    /\ IdleWait
    /\ IdleThreads

\* ideas.py:111-114  idea, idea_index = get_next_idea(idea_index), as
\* workflow.py:61 calls it; two turns of the bank and one call more
CallGetNextIdea ==
    /\ Len(served) < 2 * Len(IDEAS) + 1
    /\ LET got == get_next_idea(idea_index)
       IN  /\ served' = Append(served, [given |-> idea_index, idea |-> got[1],
                                        next |-> got[2]])
           /\ idea_index' = got[2]
    /\ UNCHANGED <<IDEAS, current_idea_index, runVars, hostVars, execVars, parseVars, waitVars, threadVars>>

IdeasNext == CallGetNextIdea

SpecIdeas == IdeasInit /\ [][IdeasNext]_vars

(* ------------- the extraction of the video url on any result ------------- *)
\* the urls a result can list (one holds a comma and a query)
Urls == {ResultUrl, SecondUrl, "https://cdn.kie.ai/v/2.mp4?sig=a,b&t=1"}

\* the resultUrls lists of 0 to MaxUrls urls
UrlLists == UNION {[1..n -> Urls] : n \in 0..MaxUrls}

\* data.resultJson listing urls, in a form: the nested object, or its JSON
\* text in a style
ResultJson(urls, form) ==
    IF form = "object" THEN ObjectResult([resultUrls |-> urls])
    ELSE StringResult(JsonText(urls, form))

\* the extraction is about to be applied to a resultJson that lists some urls
\* in some form, to an object without resultUrls, or to a text that is no JSON
ParseInputs ==
    {[form |-> f, urls |-> u, result_json |-> ResultJson(u, f)] :
         f \in JsonStyles \cup {"object"}, u \in UrlLists}
      \cup {[form |-> "no_key", urls |-> <<>>,
             result_json |-> ObjectResult([resultObject |-> <<>>])],
            [form |-> "no_json", urls |-> <<>>, result_json |-> StringResult("")]}

ParseInit ==
    /\ parse_in \in ParseInputs
    /\ parse_out = NoReturn
    /\ IDEAS = DefaultIdeas
    /\ current_idea_index = [e \in Engines |-> 0]
    /\ IdleRuns
    /\ IdleIdeas
    /\ IdleHost
    /\ IdleExecutor
    /\ IdleWait
    /\ IdleThreads

\* workflow.py:88-93 and workflow_executor.py:137-141  the extraction applied
ExtractVideoUrl ==
    /\ parse_out = NoReturn
    /\ parse_out' = extract_video_url(parse_in.result_json)
    /\ UNCHANGED <<parse_in, IDEAS, current_idea_index, runVars, ideaVars, hostVars,
                   execVars, waitVars, threadVars>>

ParseNext == ExtractVideoUrl

SpecParse == ParseInit /\ [][ParseNext]_vars

(* --------------- wait_for_completion on any time budget --------------- *)
\* the arguments wait_for_completion is called with: a budget that is
\* negative, zero or positive, and a positive interval
WaitInputs ==
    {[max_wait |-> m, check_interval |-> c] : m \in -1..MaxWait, c \in 1..MaxInterval}

\* api_clients.py:51  start_time = time.time(): the call has polled nothing
\* and its clock is at 0 (elapsed is time.time() - start_time, busy the part
\* of it spent inside get_task_status)
WaitInit ==
    /\ \E a \in WaitInputs :
         wait = [at |-> "check", max_wait |-> a.max_wait,
                 check_interval |-> a.check_interval, elapsed |-> 0, busy |-> 0,
                 polls |-> 0, slept |-> 0, status |-> NoText]
    /\ parse_in = NoParse
    /\ parse_out = NoReturn
    /\ IdleThreads
    /\ IDEAS = DefaultIdeas
    /\ current_idea_index = [e \in Engines |-> 0]
    /\ IdleRuns
    /\ IdleIdeas
    /\ IdleHost
    /\ IdleExecutor

\* api_clients.py:53, 67  the loop condition is evaluated: the loop body runs,
\* or the loop is left and TimeoutError is raised
WaitCheck ==
    /\ wait.at = "check"
    /\ wait' = [wait EXCEPT !.at = IF WithinBudget(wait.elapsed, wait.max_wait)
                                  THEN "poll" ELSE "timeout"]
    /\ UNCHANGED <<IDEAS, current_idea_index, runVars, ideaVars, hostVars, execVars,
                   parseVars, threadVars>>

\* api_clients.py:54-62  get_task_status takes d seconds and raises, or
\* answers with a status: SUCCESS returns the result, FAILED and ERROR raise,
\* anything else goes on to the sleep
WaitPoll ==
    /\ wait.at = "poll"
    /\ \E d \in 0..MaxLatency :
        \E st \in PollStatuses \cup {StatusError} :
            wait' = [wait EXCEPT !.polls = @ + 1, !.elapsed = @ + d, !.busy = @ + d,
                                 !.status = st,
                                 !.at = CASE st = "SUCCESS" -> "returned"
                                          [] st \in {"FAILED", "ERROR"} -> "failed"
                                          [] st = StatusError -> "error"
                                          [] OTHER -> "sleep"]
    /\ UNCHANGED <<IDEAS, current_idea_index, runVars, ideaVars, hostVars, execVars,
                   parseVars, threadVars>>

\* api_clients.py:65  time.sleep(check_interval)
WaitSleep ==
    /\ wait.at = "sleep"
    /\ wait' = [wait EXCEPT !.at = "check", !.slept = @ + 1,
                            !.elapsed = @ + wait.check_interval]
    /\ UNCHANGED <<IDEAS, current_idea_index, runVars, ideaVars, hostVars, execVars,
                   parseVars, threadVars>>

WaitNext == WaitCheck \/ WaitPoll \/ WaitSleep

SpecWait == WaitInit /\ [][WaitNext]_vars

(* ---------------------- reading the write logs ----------------------- *)
HasStatus(kw) == "status" \in DOMAIN kw

\* the writes to videos row v that set its status, in order
StatusWrites(v) == SelectSeq(video_log[v], HasStatus)

\* the position of a status on created -> generating -> generated -> completed
Rank(st) ==
    CASE st = "created"    -> 1
      [] st = "generating" -> 2
      [] st = "generated"  -> 3
      [] st = "completed"  -> 4
      [] OTHER             -> 0

\* a write of status b to a row that holds status a moves forward or to failed
Forward(a, b) == a # "failed" /\ (b = "failed" \/ Rank(a) < Rank(b))

\* the statuses written to row v are exactly sts, in that order
WroteStatuses(v, sts) ==
    LET w == StatusWrites(v)
    IN  Len(w) = Len(sts) /\ \A i \in 1..Len(w) : w[i].status = sts[i]

(* ------------------------------- claims ------------------------------- *)
\* C1: the persisted status of a VideoRecord only moves forward along
\* created -> generating -> generated -> completed, or jumps to failed: the
\* row starts as created, holds the status written last, and no write sets a
\* status that is not ahead of the stored one (failed apart), whatever the
\* script, submit, poll, upload, post and store outcomes are.
C1_StatusMonotonic ==
    \A v \in DOMAIN videos :
        LET w == StatusWrites(v)
        IN  /\ Len(w) >= 1
            /\ w[1].status = "created"
            /\ videos[v].status = w[Len(w)].status
            /\ \A i \in 1..(Len(w) - 1) : Forward(w[i].status, w[i + 1].status)

\* C1 witness: a record that went through all four stages
C1_Witness ==
    \E v \in DOMAIN videos :
        WroteStatuses(v, <<"created", "generating", "generated", "completed">>)

\* C2: completed and failed are terminal: no write of a status follows a
\* write of completed or of failed on the same record; in particular a failure
\* while closing the WorkflowRun leaves a completed record completed.
C2_TerminalStatuses ==
    \A v \in DOMAIN videos :
        LET w == StatusWrites(v)
        IN  \A i \in 1..(Len(w) - 1) : w[i].status \notin {"completed", "failed"}

(* ------------------- the rows and calls of a run --------------------- *)
\* invocation r has inserted its WorkflowRun row / its VideoRecord row
Opened(r) == local[r].run_id # None
HasVideo(r) == local[r].video_id # None

RunRow(r) == workflow_runs[local[r].run_id]
VideoRow(r) == videos[local[r].video_id]

\* invocation r returned the failure result carrying msg
ReturnedFailure(r, msg) ==
    /\ pc[r] = "returned"
    /\ ret[r] = [kind |-> "returned", success |-> FALSE, error |-> msg,
                 trace |-> format_exc(msg)]

\* invocation r returned a success result
ReturnedSuccess(r) == pc[r] = "returned" /\ ret[r].success

\* the steps 3-9 of a run: script generation, VideoRecord creation, submit,
\* poll, result parsing, upload (posting exceptions stay inside their own try)
Steps3to9 ==
    {"generate_script", "add_video", "create_video", "set_generating", "poll",
     "parse_result", "set_generated", "upload_media"}

\* C3: each invocation whose insert committed has exactly one WorkflowRun row,
\* written started at first and closed exactly once, as completed or as
\* failed; a closed row is never written again and no invocation ends with
\* its row still started.
C3_RunClosedOnce ==
    /\ Len(workflow_runs) = Cardinality({r \in Runs : Opened(r)})
    /\ \A r \in Runs : Opened(r) =>
        LET log == run_log[local[r].run_id]
        IN  /\ log[1] = "started"
            /\ Len(log) <= 2
            /\ Len(log) = 2 => log[2] \in {"completed", "failed"}
            /\ RunRow(r).status = log[Len(log)]
            /\ Ended(r) => Len(log) = 2

\* C4: an exception raised at steps 3-9 is not re-raised: the invocation
\* returns the failure result with the error message, its VideoRecord is
\* failed if one was created and its WorkflowRun is failed.
C4_NeverPropagates ==
    \A r \in Runs : Ended(r) /\ local[r].raised_at \in Steps3to9 =>
        /\ ReturnedFailure(r, local[r].error_msg)
        /\ HasVideo(r) => VideoRow(r).status = "failed"
        /\ RunRow(r).status = "failed"

\* the script generator failed: generate_script raised, or the response lacks
\* one of the fields the run needs
ScriptFailed(r) ==
    \/ local[r].raised_at = "generate_script"
    \/ /\ "generate_script" \in called[r]
       /\ pc[r] # "generate_script"
       /\ ~({"title", "description", "prompt"} \subseteq local[r].script)

\* C5: a run whose script generation fails creates no VideoRecord, makes no
\* submit, poll, upload or post, and ends returning failure with its one
\* WorkflowRun row failed and carrying the error.
C5_ScriptFailureCreatesNothing ==
    \A r \in Runs : ScriptFailed(r) =>
        /\ ~HasVideo(r)
        /\ called[r] = {"generate_script"}
        /\ posts[r] = <<>>
        /\ Ended(r) =>
            /\ ReturnedFailure(r, local[r].error_msg)
            /\ RunRow(r).status = "failed"
            /\ RunRow(r).error = local[r].error_msg

\* the wait of invocation r ran out of its budget with no terminal status
TimedOutRun(r) == local[r].raised_at = "poll" /\ local[r].error_msg = TimedOut

\* C6: when the max wait elapses with no terminal status, the record is never
\* written generated or completed, no upload or post is made, and the run
\* ends returning the timeout error with the record failed.
C6_TimeoutFailsRecord ==
    \A r \in Runs : TimedOutRun(r) =>
        /\ \A i \in DOMAIN StatusWrites(local[r].video_id) :
              StatusWrites(local[r].video_id)[i].status \notin {"generated", "completed"}
        /\ "upload_media" \notin called[r]
        /\ posts[r] = <<>>
        /\ Ended(r) =>
            /\ ReturnedFailure(r, TimedOut)
            /\ VideoRow(r).status = "failed"

\* a poll of invocation r answered FAILED or ERROR
GenerationFailedRun(r) ==
    local[r].raised_at = "poll" /\ local[r].error_msg = GenerationFailed

\* C7: when a poll answers FAILED or ERROR the run makes no upload and no
\* post, and its record ends failed.
C7_FailedPollStopsRun ==
    \A r \in Runs : GenerationFailedRun(r) =>
        /\ "upload_media" \notin called[r]
        /\ posts[r] = <<>>
        /\ Ended(r) => VideoRow(r).status = "failed"

\* upload_media of invocation r returned a media reference
UploadSucceeded(r) == local[r].media_url # NoText

\* C8: after a successful upload every platform is attempted exactly once, in
\* list order, whichever posts raise, and the run ends with the record
\* completed, the WorkflowRun completed and a success result.
C8_AllPlatformsAttempted ==
    \A r \in Runs : Ended(r) /\ UploadSucceeded(r) =>
        /\ Len(posts[r]) = Len(Platforms)
        /\ \A j \in 1..Len(posts[r]) : posts[r][j].platform = Platforms[j]
        /\ ReturnedSuccess(r)
        /\ VideoRow(r).status = "completed"
        /\ RunRow(r).status = "completed"

\* the writes to videos row v that set the posted flag of platform p to true
TrueWrites(v, p) ==
    {i \in DOMAIN video_log[v] :
        /\ PostedField(p) \in DOMAIN video_log[v][i]
        /\ video_log[v][i][PostedField(p)]}

\* the create_post calls of invocation r for platform p with outcome ok
PostCalls(r, p, ok) ==
    {j \in DOMAIN posts[r] : posts[r][j].platform = p /\ posts[r][j].ok = ok}

\* C9: for every VideoRecord and platform the posted flag is written true at
\* most once, and only after the create_post call of the same run for that
\* platform returned; after a create_post that raised the flag stays false,
\* and no platform is attempted a second time.
C9_PostedFlagOnlyAfterPost ==
    \A r \in Runs : HasVideo(r) =>
        \A p \in PlatformSet :
            LET tw == TrueWrites(local[r].video_id, p)
            IN  /\ Cardinality(tw) <= 1
                /\ VideoRow(r)[PostedField(p)] <=> tw # {}
                /\ tw # {} => PostCalls(r, p, TRUE) # {}
                /\ PostCalls(r, p, FALSE) # {} => ~VideoRow(r)[PostedField(p)]
                /\ Cardinality(PostCalls(r, p, TRUE) \cup PostCalls(r, p, FALSE)) <= 1

\* C9 witness: a run that has ended with one platform posted and flagged and
\* another whose post raised and whose flag is false
C9_Witness ==
    \E r \in Runs :
        /\ Ended(r) /\ HasVideo(r)
        /\ PostCalls(r, "youtube", TRUE) # {} /\ VideoRow(r).posted_youtube
        /\ PostCalls(r, "instagram", FALSE) # {} /\ ~VideoRow(r).posted_instagram
        /\ Len(posts[r]) = Len(Platforms)

\* upload_media of invocation r raised, or answered without a url
UploadFailedRun(r) ==
    local[r].raised_at = "upload_media" /\ local[r].error_msg \in {UploadError, KeyError("url")}

\* C10: when the upload fails no post is attempted, the record goes from
\* generated to failed keeping its video_url, the WorkflowRun is closed as
\* failed and the run returns failure.
C10_UploadFailureFailsRun ==
    \A r \in Runs : UploadFailedRun(r) =>
        /\ posts[r] = <<>>
        /\ Ended(r) =>
            /\ WroteStatuses(local[r].video_id,
                             <<"created", "generating", "generated", "failed">>)
            /\ VideoRow(r).video_url = ResultUrl
            /\ RunRow(r).status = "failed"
            /\ ReturnedFailure(r, local[r].error_msg)

\* create_video of invocation r raised, or answered without data.taskId
SubmitFailedRun(r) ==
    local[r].raised_at = "create_video"
        /\ local[r].error_msg \in {SubmitError, KeyError("taskId")}

\* C11: when the submit fails the record is never written generating and goes
\* from created to failed, no poll, upload or post is made, the WorkflowRun is
\* closed as failed and the run returns failure.
C11_SubmitFailureFailsRun ==
    \A r \in Runs : SubmitFailedRun(r) =>
        /\ \A i \in DOMAIN StatusWrites(local[r].video_id) :
              StatusWrites(local[r].video_id)[i].status # "generating"
        /\ called[r] \cap {"get_task_status", "upload_media"} = {}
        /\ posts[r] = <<>>
        /\ Ended(r) =>
            /\ WroteStatuses(local[r].video_id, <<"created", "failed">>)
            /\ RunRow(r).status = "failed"
            /\ ReturnedFailure(r, local[r].error_msg)

\* C12: the wait raises the timeout error, of class TimeoutError, exactly when
\* its budget is used up with no terminal status, and a FAILED or ERROR status
\* raises another message of another class; the failure result handed to the
\* caller carries the message and the class of the error the run met, so a
\* timeout and a generation failure give different results.
C12_TimeoutDistinct ==
    [][\A r \in Runs :
        /\ pc[r] = "poll" /\ pc'[r] = "except" =>
            /\ local'[r].error_msg = TimedOut <=> ~(local[r].elapsed < max_wait)
            /\ ExceptionClass(local'[r].error_msg) = "TimeoutError"
                    <=> ~(local[r].elapsed < max_wait)
            /\ local'[r].error_msg # TimedOut =>
                    local'[r].error_msg \in {GenerationFailed, StatusError}
        /\ pc[r] = "except_close" /\ pc'[r] = "returned" =>
            /\ ret'[r].error = local[r].error_msg
            /\ ret'[r].trace = <<ExceptionClass(local[r].error_msg), local[r].error_msg>>
            /\ ret'[r].error = TimedOut <=> TimedOutRun(r)
            /\ ret'[r].error = GenerationFailed <=> GenerationFailedRun(r)]_vars

\* C12 witness: a run whose wait ran out of budget has returned the failure
\* result, which carries the timeout message and class
C12_Witness ==
    \E r \in Runs :
        /\ TimedOutRun(r)
        /\ pc[r] = "returned"
        /\ ret[r].error = TimedOut
        /\ ret[r].trace[1] = "TimeoutError"

\* a create_post call that returned
PostReturned(post) == post.ok

\* the platforms whose create_post call of invocation r returned, in call order
PostedTo(r) ==
    LET done == SelectSeq(posts[r], PostReturned)
    IN  [j \in 1..Len(done) |-> done[j].platform]

\* C13: the result of a successful run carries video id, url, title and
\* posted_to, and posted_to is the sequence of the platforms whose post call
\* was made and returned, in configured order.
C13_SuccessReturnsPostedTo ==
    \A r \in Runs : ReturnedSuccess(r) =>
        /\ {"video_id", "video_url", "title", "posted_to"} \subseteq DOMAIN ret[r]
        /\ ret[r].posted_to = PostedTo(r)

\* C14: the result handed to the caller carries the id of the WorkflowRun the
\* invocation opened, when the run succeeds and when it fails.
C14_RunIdReturned ==
    \A r \in Runs : pc[r] = "returned" =>
        /\ "run_id" \in DOMAIN ret[r]
        /\ ret[r].run_id = local[r].run_id

\* the ideas returned by the calls j .. j + n - 1 of the iteration
ServedIn(j, n) == {served[k].idea : k \in j..(j + n - 1)}

\* C15: get_next_idea(i) returns the idea at i mod N and the index
\* (i mod N + 1) mod N, which lies in 0..N-1, for every index i and bank size
\* N >= 1, and leaves the bank alone; fed back its own index from 0, it
\* returns every idea of the bank exactly once in any N consecutive calls.
C15_GetNextIdea ==
    LET N == Len(IDEAS)
    IN  /\ IDEAS \in Catalogs
        /\ \A j \in DOMAIN served :
              /\ served[j].idea = IDEAS[(served[j].given % N) + 1]
              /\ served[j].next = ((served[j].given % N) + 1) % N
              /\ served[j].next \in 0..(N - 1)
              /\ j > 1 => served[j].given = served[j - 1].next
        /\ served # <<>> /\ served[1].given = 0 =>
              \A j \in 1..(Len(served) - N + 1) :
                  ServedIn(j, N) = {IDEAS[k] : k \in 1..N}

\* C15 witness: two full turns and one call more over a bank of three or
\* more ideas, started at index 0
C15_Witness ==
    /\ Len(IDEAS) >= 3
    /\ Len(served) = 2 * Len(IDEAS) + 1
    /\ served[1].given = 0

\* the ideas the calls on engine e obtained, in order
UsedBy(e) ==
    LET IsOf(u) == u.engine = e
        us == SelectSeq(used, IsOf)
    IN  [j \in 1..Len(us) |-> us[j].idea]

\* C16: on one engine the index advances exactly once per call of
\* run_workflow that opened its WorkflowRun, however the call ends: after k
\* such calls the index is k mod N, and the k-th of them used idea
\* (k - 1) mod N.
C16_IndexAdvancesOncePerRun ==
    LET N == Len(IDEAS)
    IN  \A e \in Engines :
            LET k == Len(UsedBy(e))
                opening == IF HostBusy /\ call.at = "get_idea" /\ call.engine = e
                           THEN 1 ELSE 0
            IN  /\ opened[e] = k + opening
                /\ current_idea_index[e] = k % N
                /\ \A j \in 1..k : UsedBy(e)[j] = IDEAS[((j - 1) % N) + 1]

\* C16 witness: one engine has made a full turn of the bank and one call
\* more, which has ended: its index has wrapped and stands at 1
C16_Witness ==
    \E e \in Engines :
        /\ ~HostBusy
        /\ opened[e] = Len(IDEAS) + 1
        /\ current_idea_index[e] = 1
        /\ UsedBy(e)[Len(IDEAS) + 1] = IDEAS[1]

\* the ideas the executions of workflow id took from the default bank, in order
IdeasOf(id) ==
    LET OfId(e) == e.workflow_id = id
        mine == SelectSeq(exec_ideas, OfId)
    IN  [k \in 1..Len(mine) |-> mine[k].idea]

\* C17: the k-th execution of a video_creation workflow on the default idea
\* bank uses idea (k-1) mod N of the catalog, so N executions in a row use N
\* different ideas.
C17_ExecutorRoundRobin ==
    \A id \in DOMAIN workflows : \A k \in DOMAIN IdeasOf(id) :
        IdeasOf(id)[k] = IDEAS[((k - 1) % Len(IDEAS)) + 1]

\* C18: in the dashboard host no idea is used a second time before every
\* idea of the bank has been used once, whichever of the manual trigger and
\* the scheduler starts the runs.
C18_SharedRotation ==
    \A i, j \in DOMAIN used :
        i < j /\ used[i].idea = used[j].idea =>
            {used[k].idea : k \in 1..(j - 1)} = {IDEAS[k] : k \in DOMAIN IDEAS}

\* workflow_executor.py:108-118 and ai_client.py:72-73  the responses of chat
\* that are a failure of the script generation: the text of a request error,
\* and content that is not JSON
ScriptFailures == {"error", "prose"}

\* C19: in execute_workflow, once the AI call has failed or answered with text
\* that is not JSON, no video is submitted, polled, uploaded or posted, and
\* the call ends with a failure result and the execution logged as failed.
C19_ExecScriptFailureFatal ==
    [][xlocal.chat \in ScriptFailures =>
          /\ xcalled' \subseteq {"chat"}
          /\ xposts' = <<>>
          /\ xpc' = "done" =>
                /\ xret'.kind = "returned"
                /\ ~xret'.success
                /\ workflow_executions' # <<>>
                /\ workflow_executions'[Len(workflow_executions')].status = "failed"]_vars

\* C20: the content of every create_post call of a run is the description of
\* the run's script, one space, and its hashtags (nothing for a script without
\* hashtags), so hashtags "#a #b" arrive unchanged; every platform is sent
\* that same content and the media reference upload_media returned.
C20_PostContent ==
    \A r \in Runs : \A j \in DOMAIN posts[r] :
        /\ "description" \in local[r].script
        /\ posts[r][j].content =
              IF "hashtags" \in local[r].script
              THEN "A baby goat hops. #a #b" ELSE "A baby goat hops. "
        /\ posts[r][j].content = posts[r][1].content
        /\ posts[r][j].media_url = MediaUrl
        /\ posts[r][j].media_url = local[r].media_url

\* C20 witness: a run whose script carries hashtags has ended after sending
\* the content to all three platforms, one of which refused it
C20_Witness ==
    \E r \in Runs :
        /\ Ended(r)
        /\ Len(posts[r]) = Len(Platforms)
        /\ "hashtags" \in local[r].script
        /\ posts[r][3].content = "A baby goat hops. #a #b"
        /\ ~posts[r][2].ok

\* the results of the runs that list SampleUrls, as a text or as the object
WellFormedResults == {res \in ResultJsons : res.is_str \/ "resultUrls" \in DOMAIN res.obj}

\* every result that lists SampleUrls gives their first url, text or object
FormsAgree ==
    \A res \in WellFormedResults : VideoUrlOf[res] = [ok |-> TRUE, url |-> SampleUrls[1]]

\* C21: the video_url taken from a SUCCESS result is the first element of
\* resultUrls, the same whether resultJson is a JSON text or the nested object;
\* that value is what is written to the video_url column of the VideoRecord and
\* what upload_media is called with.
C21_VideoUrlFromResult ==
    /\ FormsAgree
    /\ \A r \in Runs :
          /\ local[r].video_url # NoText => local[r].video_url = SampleUrls[1]
          /\ pc[r] = "set_generated" => local[r].result \in WellFormedResults
          /\ HasVideo(r) /\ VideoRow(r).video_url # NoText =>
                VideoRow(r).video_url = SampleUrls[1]
          /\ HasVideo(r) =>
                \A j \in DOMAIN video_log[local[r].video_id] :
                    LET kw == video_log[local[r].video_id][j]
                    IN  "video_url" \in DOMAIN kw /\ j > 1 => kw.video_url = SampleUrls[1]
          /\ "upload_media" \in called[r] /\ ~Ended(r) =>
                local[r].uploaded = SampleUrls[1]

\* C21 witness: a run whose result came as a JSON text with escaped solidus
\* has written the first url to its VideoRecord and is about to upload it
C21_Witness ==
    \E r \in Runs :
        /\ pc[r] = "upload_media"
        /\ local[r].result = StringResult(JsonText(SampleUrls, "escaped"))
        /\ VideoRow(r).video_url = ResultUrl
        /\ VideoRow(r).status = "generated"
        /\ local[r].video_url = ResultUrl

\* the rows of invocation r are closed: its WorkflowRun is completed or failed,
\* and so is its VideoRecord if it created one
RowsClosed(r) ==
    /\ Opened(r)
    /\ RunRow(r).status \in {"completed", "failed"}
    /\ HasVideo(r) => VideoRow(r).status \in {"completed", "failed"}

\* C22: every invocation of run_workflow that opened its WorkflowRun
\* eventually returns, with the WorkflowRun completed or failed and the
\* VideoRecord, if created, completed or failed.
C22_RunEndsClosed ==
    \A r \in Runs : Opened(r) ~> (pc[r] = "returned" /\ RowsClosed(r))

(* ---------------------- two invocations at once ---------------------- *)
\* invocation r took the step: its position or its locals changed
Mover(r) == pc'[r] # pc[r] \/ local'[r] # local[r]

\* the rows of tbl the step wrote: those created and those changed
Written(old, new) ==
    {i \in DOMAIN new : i \notin DOMAIN old \/ new[i] # old[i]}

\* the step of invocation r wrote no VideoRecord but the one r holds the id
\* of, and no WorkflowRun but the one r holds the id of
WritesOwnRows(r) ==
    /\ Written(videos, videos') \subseteq {local'[r].video_id}
    /\ Written(workflow_runs, workflow_runs') \subseteq {local'[r].run_id}

\* the ids an invocation holds stay the ones it was given by its own inserts
KeepsIds(r) ==
    /\ local[r].video_id # None => local'[r].video_id = local[r].video_id
    /\ local[r].run_id # None => local'[r].run_id = local[r].run_id

\* no two invocations hold the id of the same row
DistinctRows ==
    \A r1, r2 \in Callers :
        r1 # r2 =>
            /\ Opened(r1) => local[r1].run_id # local[r2].run_id
            /\ HasVideo(r1) => local[r1].video_id # local[r2].video_id

\* the status of the VideoRecord when the step named is reached: the one
\* written by the last update_video of the invocation before that step
StatusAt(step) ==
    CASE step \in {"create_video", "set_generating"}        -> "created"
      [] step \in {"poll", "parse_result", "set_generated"} -> "generating"
      [] step \in {"upload_media", "create_post", "set_posted", "set_completed"}
                                                            -> "generated"
      [] step = "close_completed"                           -> "completed"
      [] OTHER                                              -> NoText

\* the rows of an invocation that ended are what its own steps made of them:
\* completed after a success; failed after a returned failure; after an
\* exception that left run_workflow, a WorkflowRun still started and a
\* VideoRecord failed or as the step that raised found it
OwnOutcome(r) ==
    CASE ReturnedSuccess(r) ->
           /\ VideoRow(r).status = "completed"
           /\ RunRow(r) = [status |-> "completed", video_id |-> local[r].video_id,
                           error |-> NoText]
      [] pc[r] = "returned" /\ ~ret[r].success ->
           /\ HasVideo(r) =>
                /\ VideoRow(r).status = "failed"
                /\ VideoRow(r).error = ret[r].error
           /\ RunRow(r) = [status |-> "failed", video_id |-> local[r].video_id,
                           error |-> ret[r].error]
      [] pc[r] = "raised" ->
           /\ Opened(r) => RunRow(r).status = "started"
           /\ HasVideo(r) =>
                VideoRow(r).status \in {"failed", StatusAt(local[r].raised_at)}
      [] OTHER -> TRUE

\* C23: under any interleaving of two invocations of run_workflow, a step of
\* an invocation writes only the VideoRecord and the WorkflowRun that
\* invocation created, no two invocations hold the same row, and the rows of
\* an invocation that ended have the status its own outcomes give them.
C23_RunsIndependent ==
    /\ [](DistinctRows /\ \A r \in Callers : OwnOutcome(r))
    /\ [][\A r \in Callers : Mover(r) => WritesOwnRows(r) /\ KeepsIds(r)]_vars

\* both invocations created their rows while the other was in flight, and
\* ended differently: one completed, one failed
C23_Witness ==
    /\ ReturnedSuccess(1)
    /\ pc[2] = "returned" /\ ~ret[2].success
    /\ local[1].run_id = 2 /\ local[2].run_id = 1
    /\ local[1].video_id = 1 /\ local[2].video_id = 2
    /\ VideoRow(1).status = "completed" /\ VideoRow(2).status = "failed"

\* invocation r has its idea, and has stored the index that came with it
Stored(r) == local[r].idea # -1 /\ pc[r] \notin {"idle", "get_idea", "store_index"}

\* the position after i in the rotation over the bank
Succ(i) == (i + 1) % Len(IDEAS)

\* the ideas of the bank
Catalog == {IDEAS[k] : k \in DOMAIN IDEAS}

\* C24: when two invocations of run_workflow race on the index of one engine,
\* the index stays within 0..N-1 and each invocation obtains an idea of the
\* bank; the two obtain the same idea, the index then having advanced by
\* one, or consecutive ideas, the index then having advanced by two.
C24_IndexRace ==
    LET idx == current_idea_index[SharedEngine]
        i1  == local[1].idea
        i2  == local[2].idea
    IN  /\ idx \in 0..(Len(IDEAS) - 1)
        /\ \A r \in Callers : local[r].idea # -1 => local[r].idea \in Catalog
        /\ Stored(1) /\ Stored(2) =>
             \/ i1 = i2 /\ idx = Succ(i1)
             \/ i2 = Succ(i1) /\ idx = Succ(i2)
             \/ i1 = Succ(i2) /\ idx = Succ(i1)

\* both invocations read the index of the last idea of the bank before either
\* stored: both obtained that idea, and the index wrapped to 0, one step on
C24_Witness ==
    /\ Stored(1) /\ Stored(2)
    /\ local[1].idea = IDEAS[Len(IDEAS)]
    /\ local[2].idea = local[1].idea
    /\ current_idea_index[SharedEngine] = 0
    /\ Ended(1) /\ Ended(2)

(* ------------------------- a process that dies ------------------------ *)
\* the process died while invocation r was at step
CrashedAt(r, step) == pc[r] = "crashed" /\ ret[r].at = step

TerminalStatuses == {"SUCCESS", "FAILED", "ERROR"}

\* ceil(a / b) for a positive b, and 0 when a is not positive
CeilDiv(a, b) == IF a <= 0 THEN 0 ELSE (a + b - 1) \div b

\* the call is between two turns of its loop, or has left it by the timeout
BetweenTurns == wait.at \in {"check", "poll", "timeout"}

\* what holds of the call in every state
WaitState ==
    /\ wait.at = "returned" <=> wait.status = "SUCCESS"
    /\ wait.at = "failed" <=> wait.status \in {"FAILED", "ERROR"}
    /\ wait.slept = IF BetweenTurns THEN wait.polls ELSE wait.polls - 1
    /\ wait.elapsed = wait.slept * wait.check_interval + wait.busy
    /\ wait.at = "timeout" =>
         wait.elapsed >= wait.max_wait /\ wait.status \notin TerminalStatuses
    /\ wait.busy = 0 => wait.polls <= CeilDiv(wait.max_wait, wait.check_interval)
    /\ wait.max_wait <= 0 => wait.polls = 0

\* what holds of every poll
WaitPollStep ==
    wait'.polls # wait.polls =>
        /\ wait.elapsed < wait.max_wait
        /\ wait.status \notin TerminalStatuses
        /\ wait'.polls = wait.polls + 1

\* C26: wait_for_completion polls only while the elapsed time is below
\* max_wait and sleeps check_interval after each non-terminal poll; it returns
\* on the first SUCCESS, raises on the first FAILED or ERROR and polls no more
\* after a terminal status; with polls of zero duration it issues at most
\* ceil(max_wait / check_interval) polls, none when max_wait <= 0, before the
\* timeout.
C26_WaitPolls == [](wait.at # "none" => WaitState) /\ [][WaitPollStep]_vars

\* a budget the interval does not divide, used up by polls of zero duration:
\* the timeout is raised after exactly ceil(max_wait / check_interval) polls
C26_Witness ==
    /\ wait.at = "timeout"
    /\ wait.busy = 0
    /\ wait.max_wait = 5 /\ wait.check_interval = 3
    /\ wait.polls = 2
    /\ wait.polls = CeilDiv(wait.max_wait, wait.check_interval)

(* --------------------- the rows of an execution ----------------------- *)
\* the step is the first of a call of execute_workflow
CallStarts == execs' = execs + 1

\* the step is the last of a call that got past the two early returns
CallEnds == XBusy /\ xpc' = "done"

\* the tables of the WorkflowManager are left as they were
TablesUnchanged == UNCHANGED <<workflows, workflow_executions>>

\* the status an execution is logged with, given what the call handed back
LoggedStatus(value) ==
    IF value.kind = "returned" /\ value.success THEN "success" ELSE "failed"

\* the step appends one row for workflow id, logged by what the call handed
\* back, and counts it
LogsOneRow(id) ==
    /\ Len(workflow_executions') = Len(workflow_executions) + 1
    /\ workflow_executions'[Len(workflow_executions')].workflow_id = id
    /\ workflow_executions'[Len(workflow_executions')].status = LoggedStatus(xret')
    /\ workflows' = CountExecution(workflows, id, LoggedStatus(xret'))

\* a call for a workflow that is missing or paused ends at once with a
\* failure result, having called nothing and written nothing; any other call
\* goes on to the routing
EarlyReturn ==
    CallStarts =>
        /\ TablesUnchanged
        /\ xcalled' = {}
        /\ xpc' = "done" =>
             xret' \in {XFailure(WorkflowNotFound), XFailure(WorkflowPaused)}
        /\ xpc' # "done" =>
             /\ xlocal'.workflow_id \in DOMAIN workflows
             /\ workflows[xlocal'.workflow_id].status = "active"

\* a call that got past the early returns writes nothing before its last
\* step, and its last step logs one row and hands back a result
OneRow ==
    /\ XBusy /\ xpc' # "done" => TablesUnchanged
    /\ CallEnds => LogsOneRow(xlocal.workflow_id) /\ xret'.kind = "returned"

\* C27: execute_workflow(id) writes exactly one workflow_executions row when
\* the workflow exists and is active, with status success iff the result it
\* returns has success = true; when the workflow is missing or paused it
\* returns a failure, calls nothing, writes no row and changes no counter.
C27_OneRowPerExecution == [][EarlyReturn /\ OneRow]_vars

(* -------------------- the counters of a workflow ---------------------- *)
\* the workflow_executions rows recorded for workflow id
RowsOf(id) ==
    {i \in DOMAIN workflow_executions : workflow_executions[i].workflow_id = id}

\* those of them whose status is success
SuccessRowsOf(id) == {i \in RowsOf(id) : workflow_executions[i].status = "success"}

\* C28: after any sequence of create_workflow, execute_workflow,
\* log_execution, pause_workflow and resume_workflow, every workflow has
\* total_runs = successful_runs + failed_runs, total_runs equal to the number
\* of its workflow_executions rows, and successful_runs equal to the number
\* of those rows whose status is success.
C28_CountersMatchRows ==
    \A id \in DOMAIN workflows :
        /\ workflows[id].total_runs
              = workflows[id].successful_runs + workflows[id].failed_runs
        /\ workflows[id].total_runs = Cardinality(RowsOf(id))
        /\ workflows[id].successful_runs = Cardinality(SuccessRowsOf(id))

(* ------------------ executions and deleted workflows ------------------ *)
\* C30: under any interleaving of execute_workflow and delete_workflow, once
\* no execution is in flight every workflow_executions row refers to a
\* workflow that still exists.
C30_NoRowOfDeletedWorkflow ==
    ~XBusy =>
        \A i \in DOMAIN workflow_executions :
            workflow_executions[i].workflow_id \in LiveIds(workflows)

(* ------------------------ one scheduler loop -------------------------- *)
\* C29: under any interleaving of start and stop requests with the scheduler
\* threads, at most one thread is inside the loop that calls run_pending, and
\* a start request is accepted only when no loop is alive: a second start
\* while a loop runs is rejected, and after a stop the old loop has exited
\* before a new thread is started.
C29_OneSchedulerLoop ==
    /\ [](Cardinality(AliveLoops) <= 1)
    /\ [][Len(threads') > Len(threads) => AliveLoops = {}]_vars

\* two threads are inside the loop of scheduler.start at once
TwoLoopsAlive == Cardinality(AliveLoops) >= 2

(* ---------------- what holds of the runs that return ----------------- *)
\* C3, C4, C6, C7 and C10 fail only where a store write of the except branch
\* raises; C5 and C8 also where the script lacks a field that is read late.
\* The statements below are what remains of them, and hold in every
\* reachable state.

\* an invocation that returns has closed its row, exactly once; one that an
\* exception left has not closed it; no row is written after its closing write
RunClosedOnce_OnReturn ==
    /\ Len(workflow_runs) = Cardinality({r \in Runs : Opened(r)})
    /\ \A r \in Runs : Opened(r) =>
        LET log == run_log[local[r].run_id]
        IN  /\ log[1] = "started"
            /\ Len(log) <= 2
            /\ Len(log) = 2 => log[2] \in {"completed", "failed"}
            /\ RunRow(r).status = log[Len(log)]
            /\ pc[r] = "returned" => Len(log) = 2
            /\ pc[r] = "raised" => Len(log) = 1

\* an invocation that returns after an exception at steps 3-9 returns the
\* failure result, with its record (if any) and its row failed
FailureRecorded_OnReturn ==
    \A r \in Runs : pc[r] = "returned" /\ local[r].raised_at \in Steps3to9 =>
        /\ ReturnedFailure(r, local[r].error_msg)
        /\ HasVideo(r) => VideoRow(r).status = "failed"
        /\ RunRow(r).status = "failed"
        /\ RunRow(r).error = local[r].error_msg

\* when generate_script raises or the response has no title, no record is
\* created and no further outbound call is made
ScriptRaiseCreatesNothing ==
    \A r \in Runs : local[r].raised_at = "generate_script" =>
        ~HasVideo(r) /\ called[r] = {"generate_script"} /\ posts[r] = <<>>

\* after a timeout, a FAILED or ERROR poll, or a failed upload, no later stage
\* is entered: no status beyond the one reached is written, no post is made
\* (and no upload, when the wait failed)
FailedStageStopsRun ==
    \A r \in Runs :
        /\ TimedOutRun(r) \/ GenerationFailedRun(r) =>
            /\ \A i \in DOMAIN StatusWrites(local[r].video_id) :
                  StatusWrites(local[r].video_id)[i].status \notin {"generated", "completed"}
            /\ "upload_media" \notin called[r]
            /\ posts[r] = <<>>
        /\ UploadFailedRun(r) =>
            /\ posts[r] = <<>>
            /\ VideoRow(r).video_url = ResultUrl
            /\ \A i \in DOMAIN StatusWrites(local[r].video_id) :
                  StatusWrites(local[r].video_id)[i].status # "completed"

\* after a failed submit the record is never written generating, generated or
\* completed, and no poll, upload or post is made; a run that returns has
\* written created then failed
SubmitFailureStopsRun ==
    \A r \in Runs : SubmitFailedRun(r) =>
        /\ \A i \in DOMAIN StatusWrites(local[r].video_id) :
              StatusWrites(local[r].video_id)[i].status \in {"created", "failed"}
        /\ called[r] \cap {"get_task_status", "upload_media"} = {}
        /\ posts[r] = <<>>
        /\ pc[r] = "returned" =>
              WroteStatuses(local[r].video_id, <<"created", "failed">>)

\* the success result carries the id of the record the run created, the url
\* the run extracted and the title, and nothing about the run or its posts;
\* the failure result carries the error and the trace only
ResultFields ==
    \A r \in Runs : pc[r] = "returned" =>
        IF ret[r].success
        THEN /\ DOMAIN ret[r] = {"kind", "success", "video_id", "video_url", "title"}
             /\ ret[r].video_id = local[r].video_id
             /\ ret[r].video_url = VideoRow(r).video_url
        ELSE DOMAIN ret[r] = {"kind", "success", "error", "trace"}

\* run by run, with every step of the run spelled out: the index of the engine
\* counts the invocations that executed line 61, modulo the size of the bank,
\* and no later step of a run, however it ends, changes it; a run in progress
\* holds the idea at the index it found
IndexCountsRuns ==
    LET past == {r \in Runs : Opened(r) /\ pc[r] # "get_idea"}
    IN  /\ current_idea_index[RunEngine] = Cardinality(past) % Len(IDEAS)
        /\ \A r \in past : ~Ended(r) /\ pc[r] # "idle" =>
              local[r].idea = IDEAS[((Cardinality({q \in past : q < r})) % Len(IDEAS)) + 1]

\* once the first create_post is made, every platform is attempted exactly
\* once, in list order, whichever posts raise; and only a store failure keeps
\* such a run from returning success with its record and row completed
FanOutCompletes ==
    \A r \in Runs :
        /\ posts[r] # <<>> /\ pc[r] \notin {"create_post", "set_posted"} =>
            /\ Len(posts[r]) = Len(Platforms)
            /\ \A j \in 1..Len(posts[r]) : posts[r][j].platform = Platforms[j]
        /\ Ended(r) /\ posts[r] # <<>> /\ local[r].error_msg # StoreError =>
            /\ ReturnedSuccess(r)
            /\ VideoRow(r).status = "completed"
            /\ RunRow(r).status = "completed"

(* ------------- what holds of the executions of a workflow ------------- *)
\* every execution on the default bank takes the first idea of the catalog
ExecutorTakesFirstIdea ==
    \A k \in DOMAIN exec_ideas : exec_ideas[k].idea = IDEAS[1]

\* the configured platforms the loop has passed whose create_post did not raise
NotRaised(loc) ==
    LET Raised(p) == \E j \in DOMAIN xposts : xposts[j].platform = p /\ ~xposts[j].ok
        Kept(p) == ~Raised(p)
    IN  SelectSeq(SubSeq(ConfigPlatforms(loc.workflow.config), 1, loc.i - 1), Kept)

\* posted_to of the executor: a create_post call is made for the platforms the
\* executor knows and for no other; posted_to holds, in configured order, the
\* platforms whose call returned and also the configured platforms it does not
\* know; the success result carries that list, and no video id
ExecPostedTo ==
    /\ \A j \in DOMAIN xposts : xposts[j].platform \in PlatformSet
    /\ xpc = "post" => xlocal.posted_to = NotRaised(xlocal)
    /\ xpc = "log" /\ xlocal.workflow.type = "video_creation" =>
          /\ xlocal.result.posted_to = NotRaised(xlocal)
          /\ DOMAIN xlocal.result =
                {"kind", "success", "workflow_id", "video_url", "title", "posted_to",
                 "idea_slug"}

\* the content of every create_post call of an execution is the description
\* of its script (or nothing), one space, and its hashtags (or nothing); every
\* platform is sent that content and the media reference of upload_media
ExecPostContent ==
    \A j \in DOMAIN xposts :
        /\ xposts[j].content = xposts[1].content
        /\ xposts[j].media_url = MediaUrl
        /\ xpc = "post" =>
              xposts[j].content =
                  ScriptGet(xlocal.script, "description", "") \o " "
                      \o ScriptGet(xlocal.script, "hashtags", "")

\* a response of chat that is no JSON is no failure for the executor: the
\* text itself, the error text of chat included, is the prompt of the video
\* that create_video is asked for
ExecFallbackPrompt ==
    xlocal.chat \in ScriptFailures /\ xpc \in {"poll", "parse_result", "upload_media", "post"} =>
        /\ "create_video" \in xcalled
        /\ xlocal.prompt = (IF xlocal.chat = "error" THEN ChatErrorText ELSE ProseText)

(* ---------- what holds of the extraction of the video url ---------- *)
\* whatever urls a result lists and in whatever form it comes, the extraction
\* gives the first of them, and IndexError when it lists none; an object
\* without resultUrls gives KeyError and a text that is no JSON the error of
\* json.loads
ExtractionByForm ==
    parse_out # NoReturn =>
        CASE parse_in.form = "no_key" ->
                 parse_out = [ok |-> FALSE, error |-> KeyError("resultUrls")]
          [] parse_in.form = "no_json" ->
                 parse_out = [ok |-> FALSE, error |-> JSONDecodeError]
          [] OTHER ->
                 IF parse_in.urls = <<>>
                 THEN parse_out = [ok |-> FALSE, error |-> IndexError]
                 ELSE parse_out = [ok |-> TRUE, url |-> parse_in.urls[1]]

\* the executor takes the video url the same way and uploads what it took
ExecVideoUrl ==
    /\ xlocal.video_url # NoText => xlocal.video_url = SampleUrls[1]
    /\ "upload_media" \in xcalled /\ XBusy => xlocal.uploaded = SampleUrls[1]

(* ------------------- what holds of the end of a run ------------------- *)
\* every invocation ends: it returns or an exception leaves it; a job that
\* stays pending does not keep it waiting
RunEnds == \A r \in Runs : pc[r] # "idle" ~> Ended(r)

\* the wait gives up: no poll is made once max_wait seconds have passed, and
\* the last sleep ends less than a poll and a sleep after max_wait
WaitBounded ==
    \A r \in Runs : local[r].elapsed < max_wait + MaxLatency + check_interval

\* an invocation that returns leaves its rows closed; one that an exception
\* leaves met a store error, in its first statement or in its except branch
EndsClosedOrStoreError ==
    \A r \in Runs :
        /\ pc[r] = "returned" => RowsClosed(r)
        /\ pc[r] = "raised" => ret[r] = [kind |-> "raised", error |-> StoreError]


\* what remains of C27 where the store fails: a call of execute_workflow that
\* returns a result has written its one row, or none if it returned early;
\* a call that an exception left has written none
ExecRowPerReturn ==
    [][/\ CallStarts =>
            /\ TablesUnchanged
            /\ xcalled' = {}
            /\ xpc' = "done" =>
                 xret' \in {XFailure(WorkflowNotFound), XFailure(WorkflowPaused),
                            [kind |-> "raised", error |-> StoreError]}
       /\ XBusy /\ xpc' # "done" => TablesUnchanged
       /\ CallEnds =>
            IF xret'.kind = "returned"
            THEN LogsOneRow(xlocal.workflow_id)
            ELSE TablesUnchanged /\ xpc = "crash"]_vars


\* the rows of workflow id its counters do not count
Uncounted(id) == Cardinality(RowsOf(id)) - workflows[id].total_runs

UncountedSuccess(id) == Cardinality(SuccessRowsOf(id)) - workflows[id].successful_runs

\* what remains of C28: the counters of a workflow add up, and count every
\* row recorded since the workflow exists (log_execution inserts the row and
\* updates the counters in one transaction); the rows they miss were
\* recorded under the id before the workflow was created
CountersAddUp ==
    \A id \in DOMAIN workflows :
        /\ workflows[id].total_runs
              = workflows[id].successful_runs + workflows[id].failed_runs
        /\ Uncounted(id) >= 0
        /\ UncountedSuccess(id) >= 0

CountedSinceCreated ==
    [][\A id \in DOMAIN workflows :
          /\ Uncounted(id)' = Uncounted(id)
          /\ UncountedSuccess(id)' = UncountedSuccess(id)]_vars


\* what holds of delete_workflow: the step that deletes a workflow leaves no
\* row of it, and an execution that starts afterwards finds no workflow
DeleteLeavesNoRow ==
    [][\A id \in LiveIds(workflows) :
          id \notin LiveIds(workflows') => RowsOf(id)' = {}]_vars

\* a row of a deleted workflow was logged by an execution that had fetched
\* the workflow before it was deleted
OrphanRowsFromFlight ==
    [][\A id \in DOMAIN workflows :
          (id \notin LiveIds(workflows) /\ Cardinality(RowsOf(id)') > Cardinality(RowsOf(id)))
              => XBusy /\ xlocal.workflow_id = id]_vars

====
